---- MODULE Spec2Model ----
(***************************************************************************)
(* A model of the Bitbucket AI code reviewer: the /webhook request         *)
(* pipeline of app.py (signature check, rate limit, event classification,  *)
(* diff fetch, analysis, comment dispatch) and the helpers it calls in     *)
(* src/utils.                                                              *)
(*                                                                         *)
(* Text is modelled as a sequence of tokens (a word, a code fence, a line  *)
(* break, a JSON punctuation mark), Python values as tagged records.       *)
(***************************************************************************)
EXTENDS Integers, Sequences, FiniteSets, TLC

(***************************************************************************)
(* Text: tokens and the str methods the code uses.                         *)
(***************************************************************************)
\* the code fence of markdown, three backquotes
FENCE == "<fence>"
NL == "<LF>"
ESCNL == "\\n"
QUOTE == "\""

Whitespace == {NL, " "}

RECURSIVE Concat(_)
Concat(parts) ==
  IF parts = <<>> THEN <<>> ELSE Head(parts) \o Concat(Tail(parts))

StartsWith(s, pat) ==
  /\ Len(s) >= Len(pat)
  /\ SubSeq(s, 1, Len(pat)) = pat

\* the positions at which pat occurs in s
Occurrences(s, pat) ==
  {i \in 1..(Len(s) - Len(pat) + 1) : SubSeq(s, i, i + Len(pat) - 1) = pat}

Contains(s, pat) == Occurrences(s, pat) # {}

Min(S) == CHOOSE x \in S : \A y \in S : x <= y

\* s.split(pat)[0]
SplitHead(s, pat) ==
  IF Contains(s, pat) THEN SubSeq(s, 1, Min(Occurrences(s, pat)) - 1) ELSE s

\* everything after the first occurrence of pat (pat occurs in s)
AfterFirst(s, pat) ==
  SubSeq(s, Min(Occurrences(s, pat)) + Len(pat), Len(s))

\* s.split(pat)[1], for s containing pat
SplitSecond(s, pat) == SplitHead(AfterFirst(s, pat), pat)

RECURSIVE LStrip(_)
LStrip(s) ==
  IF s # <<>> /\ Head(s) \in Whitespace THEN LStrip(Tail(s)) ELSE s

RECURSIVE RStrip(_)
RStrip(s) ==
  IF s # <<>> /\ s[Len(s)] \in Whitespace
  THEN RStrip(SubSeq(s, 1, Len(s) - 1)) ELSE s

Strip(s) == RStrip(LStrip(s))

\* s[:n]
Prefix(s, n) == SubSeq(s, 1, IF Len(s) < n THEN Len(s) ELSE n)

\* s.replace(pat, by), left to right, non-overlapping
RECURSIVE Replace(_, _, _)
Replace(s, pat, by) ==
  IF s = <<>> THEN <<>>
  ELSE IF StartsWith(s, pat)
       THEN by \o Replace(SubSeq(s, Len(pat) + 1, Len(s)), pat, by)
       ELSE <<Head(s)>> \o Replace(Tail(s), pat, by)

(***************************************************************************)
(* Python values, as json.loads produces them.                             *)
(***************************************************************************)
PNone == [t |-> "None"]
PInt(n) == [t |-> "int", n |-> n]
PStr(s) == [t |-> "str", s |-> s]
PList(xs) == [t |-> "list", xs |-> xs]
\* a dict is its items in insertion order, each <<key text, value>>
PDict(kv) == [t |-> "dict", kv |-> kv]

IsDict(v) == v.t = "dict"
IsList(v) == v.t = "list"
IsStr(v) == v.t = "str"
IsInt(v) == v.t = "int"

\* key in d, for a dict d (a key is a text of one token)
HasKey(d, k) == \E i \in 1..Len(d.kv) : d.kv[i][1] = <<k>>

\* d[key], for a dict d holding key (the last item with the key wins)
Lookup(d, k) ==
  d.kv[CHOOSE i \in 1..Len(d.kv) :
         /\ d.kv[i][1] = <<k>>
         /\ \A j \in (i + 1)..Len(d.kv) : d.kv[j][1] # <<k>>][2]

\* d.get(key, default)
Get(d, k, default) == IF HasKey(d, k) THEN Lookup(d, k) ELSE default

\* the number tokens of the model and the integers they denote
NumberTokens == {"5", "10", "42"}
IntOfToken(tok) ==
  CASE tok = "5" -> 5
    [] tok = "10" -> 10
    [] tok = "42" -> 42

TokenOfInt(n) ==
  CASE n = 5 -> "5"
    [] n = 10 -> "10"
    [] n = 42 -> "42"

\* a float, kept as the token that writes it, and int() of it
FloatTokens == {"10.5"}
PFloat(tok) == [t |-> "float", tok |-> tok]
IntOfFloatToken(tok) == CASE tok = "10.5" -> 10

\* the decimal text of a rate limit, as an f-string writes it
TokenOfLimit(n) ==
  CASE n = 1 -> "1"
    [] n = 2 -> "2"
    [] n = 3 -> "3"
    [] n = 60 -> "60"
    [] OTHER -> "<number>"

(***************************************************************************)
(* JSON text.  Dumps writes a value as the backend is asked to write it    *)
(* (a line break inside a string is the escape \n, a fence is written      *)
(* as it is); JsonLoads is json.loads, a recursive-descent reader of the   *)
(* same grammar, which fails on anything else.                             *)
(***************************************************************************)
Escape(s) == [i \in 1..Len(s) |-> IF s[i] = NL THEN ESCNL ELSE s[i]]

RECURSIVE Dumps(_)
RECURSIVE DumpsElems(_)
RECURSIVE DumpsMembers(_)
Dumps(v) ==
  CASE v.t = "None" -> <<"null">>
    [] v.t = "int" -> <<TokenOfInt(v.n)>>
    [] v.t = "float" -> <<v.tok>>
    [] v.t = "str" -> <<QUOTE>> \o Escape(v.s) \o <<QUOTE>>
    [] v.t = "list" -> <<"[">> \o DumpsElems(v.xs) \o <<"]">>
    [] v.t = "dict" -> <<"{">> \o DumpsMembers(v.kv) \o <<"}">>

DumpsElems(xs) ==
  IF xs = <<>> THEN <<>>
  ELSE Dumps(Head(xs))
         \o (IF Tail(xs) = <<>> THEN <<>> ELSE <<",">> \o DumpsElems(Tail(xs)))

DumpsMembers(kv) ==
  IF kv = <<>> THEN <<>>
  ELSE <<QUOTE>> \o Escape(Head(kv)[1]) \o <<QUOTE, ":">> \o Dumps(Head(kv)[2])
         \o (IF Tail(kv) = <<>> THEN <<>> ELSE <<",">> \o DumpsMembers(Tail(kv)))

JsonFail == [ok |-> FALSE]

RECURSIVE SkipWs(_, _)
SkipWs(s, i) ==
  IF i <= Len(s) /\ s[i] \in Whitespace THEN SkipWs(s, i + 1) ELSE i

\* the rest of a string whose opening quote precedes position i: it ends
\* at the next quote, and no raw line break may come before that
ParseString(s, i, acc) ==
  LET stops == {j \in i..Len(s) : s[j] \in {QUOTE, NL}} IN
  IF stops = {} \/ s[Min(stops)] = NL THEN JsonFail
  ELSE [ok |-> TRUE,
        v |-> acc \o [k \in 1..(Min(stops) - i) |->
                        IF s[i + k - 1] = ESCNL THEN NL ELSE s[i + k - 1]],
        next |-> Min(stops) + 1]

RECURSIVE ParseValue(_, _)
RECURSIVE ParseElems(_, _, _)
RECURSIVE ParseMembers(_, _, _)
ParseValue(s, i0) ==
  LET i == SkipWs(s, i0) IN
  IF i > Len(s) THEN JsonFail
  ELSE IF s[i] = "null" THEN [ok |-> TRUE, v |-> PNone, next |-> i + 1]
  ELSE IF s[i] \in NumberTokens
       THEN [ok |-> TRUE, v |-> PInt(IntOfToken(s[i])), next |-> i + 1]
  ELSE IF s[i] \in FloatTokens
       THEN [ok |-> TRUE, v |-> PFloat(s[i]), next |-> i + 1]
  ELSE IF s[i] = QUOTE
       THEN LET r == ParseString(s, i + 1, <<>>) IN
            IF r.ok THEN [ok |-> TRUE, v |-> PStr(r.v), next |-> r.next]
            ELSE JsonFail
  ELSE IF s[i] = "["
       THEN LET j == SkipWs(s, i + 1) IN
            IF j <= Len(s) /\ s[j] = "]"
            THEN [ok |-> TRUE, v |-> PList(<<>>), next |-> j + 1]
            ELSE ParseElems(s, i + 1, <<>>)
  ELSE IF s[i] = "{"
       THEN LET j == SkipWs(s, i + 1) IN
            IF j <= Len(s) /\ s[j] = "}"
            THEN [ok |-> TRUE, v |-> PDict(<<>>), next |-> j + 1]
            ELSE ParseMembers(s, i + 1, <<>>)
  ELSE JsonFail

ParseElems(s, i, acc) ==
  LET r == ParseValue(s, i) IN
  IF ~r.ok THEN JsonFail
  ELSE LET j == SkipWs(s, r.next) IN
       IF j > Len(s) THEN JsonFail
       ELSE IF s[j] = "," THEN ParseElems(s, j + 1, Append(acc, r.v))
       ELSE IF s[j] = "]"
            THEN [ok |-> TRUE, v |-> PList(Append(acc, r.v)), next |-> j + 1]
       ELSE JsonFail

ParseMembers(s, i0, acc) ==
  LET i == SkipWs(s, i0) IN
  IF i > Len(s) \/ s[i] # QUOTE THEN JsonFail
  ELSE LET k == ParseString(s, i + 1, <<>>) IN
       IF ~k.ok THEN JsonFail
       ELSE LET c == SkipWs(s, k.next) IN
            IF c > Len(s) \/ s[c] # ":" THEN JsonFail
            ELSE LET r == ParseValue(s, c + 1) IN
                 IF ~r.ok THEN JsonFail
                 ELSE LET j == SkipWs(s, r.next) IN
                      IF j > Len(s) THEN JsonFail
                      ELSE IF s[j] = ","
                           THEN ParseMembers(s, j + 1, Append(acc, <<k.v, r.v>>))
                      ELSE IF s[j] = "}"
                           THEN [ok |-> TRUE,
                                 v |-> PDict(Append(acc, <<k.v, r.v>>)),
                                 next |-> j + 1]
                      ELSE JsonFail

\* json.loads(s): [ok |-> TRUE, v |-> value], or JsonFail for JSONDecodeError
JsonLoads(s) ==
  LET r == ParseValue(s, 1) IN
  IF r.ok /\ SkipWs(s, r.next) = Len(s) + 1
  THEN [ok |-> TRUE, v |-> r.v] ELSE JsonFail

(***************************************************************************)
(* Review Analyzer: openai_client.py.  call_openai_api returns a text,     *)
(* the backend's content or an error message; analyze_code_with_ai turns   *)
(* it into the analysis the webhook dispatches.                            *)
(***************************************************************************)
Key(k) == <<k>>

NoChangesMsg == <<"No changes found to analyze.">>
LargeDiffMsg == <<"This pull request contains a very large number of changes (over 50KB).">>
UnexpectedMsg == <<"Analysis completed, but the result format was unexpected. Summary:">>
ErrorMarker == <<"Error:">>

\* the longest excerpt of an unparsable response, in characters of the text
SummaryLen == 200

\* a diff is None or a text, of which the model keeps the length
NoDiff == [t |-> "None"]
\* (total is the size the truncation marker states, 0 without a marker)
DiffText(n, total) == [t |-> "str", len |-> n, total |-> total]

\* lines 227-233: the content of the first fenced block, if there is one
ExtractJson(response_content) ==
  IF Contains(response_content, <<FENCE, "json">>)
  THEN Strip(SplitHead(SplitSecond(response_content, <<FENCE, "json">>), <<FENCE>>))
  ELSE IF Contains(response_content, <<FENCE>>)
       THEN Strip(SplitHead(SplitSecond(response_content, <<FENCE>>), <<FENCE>>))
       ELSE response_content

\* line 246
Summary(response_content) ==
  IF Contains(response_content, <<NL, NL>>)
  THEN SplitHead(response_content, <<NL, NL>>)
  ELSE Prefix(response_content, SummaryLen)

EmptyLists ==
  << <<Key("file_comments"), PList(<<>>)>>, <<Key("documentation"), PList(<<>>)>> >>

\* a fallback that returns the summary without the two lists
ParseResponseBareFallback(response_content) ==
  IF StartsWith(response_content, ErrorMarker)
  THEN PDict(<< <<Key("overall_comment"), PStr(response_content)>> >> \o EmptyLists)
  ELSE LET extracted == ExtractJson(response_content)
           parsed == JsonLoads(extracted)
       IN IF parsed.ok THEN parsed.v
          ELSE PDict(<< <<Key("overall_comment"),
                          PStr(UnexpectedMsg \o Summary(extracted))>> >>)

\* lines 219-251: what analyze_code_with_ai makes of call_openai_api's text
ParseResponse(response_content) ==
  IF StartsWith(response_content, ErrorMarker)
  THEN PDict(<< <<Key("overall_comment"), PStr(response_content)>> >> \o EmptyLists)
  ELSE LET extracted == ExtractJson(response_content)
           parsed == JsonLoads(extracted)
       IN IF parsed.ok THEN parsed.v
          ELSE PDict(<< <<Key("overall_comment"),
                          PStr(UnexpectedMsg \o Summary(extracted))>> >>
                     \o EmptyLists)

\* the share of a kilobyte in characters, and the threshold in kilobytes
KB == 1024
LargeDiffKB == 50

\* lines 111-126: the diffs for which no backend call is made
NoCallResult(diff) ==
  IF diff.t = "None" \/ diff.len = 0
  THEN PDict(<< <<Key("overall_comment"), PStr(NoChangesMsg)>> >>)
  ELSE PDict(<< <<Key("overall_comment"), PStr(LargeDiffMsg)>> >> \o EmptyLists)

\* a threshold that counts 50 KB itself as too large
CallsBackendBelow(diff) ==
  /\ diff.t # "None"
  /\ diff.len # 0
  /\ diff.len < LargeDiffKB * KB

CallsBackend(diff) ==
  /\ diff.t # "None"
  /\ diff.len # 0
  /\ diff.len <= LargeDiffKB * KB

\* analyze_code_with_ai(diff), with response_content what call_openai_api
\* returns when it is called
analyze_code_with_ai(diff, response_content) ==
  IF CallsBackend(diff) THEN ParseResponse(response_content)
  ELSE NoCallResult(diff)

(***************************************************************************)
(* Signature Authenticator and Event Classifier: webhook_utils.py.         *)
(* A request is [remote_addr, headers, data]: headers maps the names of    *)
(* the headers sent to their text, data is the raw body.                   *)
(***************************************************************************)
HexDigits == <<"0", "1", "2", "3", "4", "5", "6", "7",
               "8", "9", "a", "b", "c", "d", "e", "f">>

\* hmac.new(key, msg, sha256).hexdigest(): a keyed digest of two hex digits,
\* a stand-in for SHA-256 that depends on the key and on the message
HmacHexDigest(key, msg) ==
  << HexDigits[((7 * Len(key) + 3 * Len(msg)) % 16) + 1],
     HexDigits[((Len(key) + 5 * Len(msg)) % 16) + 1] >>

Sha256Prefix == <<"sha256=">>

\* the tokens that stand for text outside ASCII
NonAscii == {"<e-acute>"}

\* hmac.compare_digest(a, b) on str: TypeError for text outside ASCII
CompareDigestRaises(a, b) ==
  \/ \E i \in 1..Len(a) : a[i] \in NonAscii
  \/ \E i \in 1..Len(b) : b[i] \in NonAscii

\* headers.get(name), with <<>> standing for None: the code only tests the
\* outcome for truth, and the empty text is as false as None
HeaderGet(headers, name) ==
  IF name \in DOMAIN headers THEN headers[name] ELSE <<>>

\* line 24
SignatureHeader(headers) ==
  IF HeaderGet(headers, "X-Hub-Signature-256") # <<>>
  THEN HeaderGet(headers, "X-Hub-Signature-256")
  ELSE HeaderGet(headers, "X-Hub-Signature")

\* a verifier that knows only the prefixed form of the header
SignatureVerdictPrefixedOnly(secret, request) ==
  LET signature == SignatureHeader(request.headers) IN
  IF secret = <<>> THEN "allow"
  ELSE IF signature = <<>> THEN "none"
  ELSE IF CompareDigestRaises(signature, signature) THEN "error"
  ELSE IF signature = Sha256Prefix \o HmacHexDigest(secret, request.data)
       THEN "allow"
  ELSE "invalid"

\* a verifier that asks for the header before it looks for the secret
SignatureVerdictHeaderFirst(secret, request) ==
  LET signature == SignatureHeader(request.headers) IN
  IF signature = <<>> THEN "none"
  ELSE IF secret = <<>> THEN "allow"
  ELSE IF CompareDigestRaises(signature, signature) THEN "error"
  ELSE IF signature \in {HmacHexDigest(secret, request.data),
                         Sha256Prefix \o HmacHexDigest(secret, request.data)}
       THEN "allow"
  ELSE "invalid"

\* lines 19-56, up to the call of the wrapped function:
\* "allow", or the rejection "none" / "invalid" / "error"
SignatureVerdict(secret, request) ==
  LET signature == SignatureHeader(request.headers) IN
  IF secret = <<>> THEN "allow"
  ELSE IF signature = <<>> THEN "none"
  ELSE LET prefixed == StartsWith(signature, Sha256Prefix)
           check_signature ==
             IF prefixed THEN signature ELSE Sha256Prefix \o signature
           signature_value == IF prefixed THEN Tail(signature) ELSE signature
           expected_signature == HmacHexDigest(secret, request.data)
           expected_header == Sha256Prefix \o expected_signature
       IN IF CompareDigestRaises(signature_value, expected_signature)
          THEN "error"
          ELSE IF signature_value = expected_signature THEN "allow"
          ELSE IF CompareDigestRaises(check_signature, expected_header)
               THEN "error"
          ELSE IF check_signature = expected_header THEN "allow"
          ELSE "invalid"

PrEventKeys == {<<"pullrequest:created">>, <<"pullrequest:updated">>}

\* a classifier that reads the header before it touches the payload
is_pull_request_event_header_first(payload, request_headers) ==
  IF "X-Event-Key" \in DOMAIN request_headers
     /\ request_headers["X-Event-Key"] \in PrEventKeys
  THEN TRUE
  ELSE IF ~IsDict(payload) THEN FALSE
  ELSE HasKey(payload, "pullrequest")

\* lines 61-83
is_pull_request_event(payload, request_headers) ==
  IF ~IsDict(payload) THEN FALSE    \* payload.keys() raises, caught
  ELSE IF "X-Event-Key" \in DOMAIN request_headers
          /\ request_headers["X-Event-Key"] \in PrEventKeys
       THEN TRUE
  ELSE HasKey(payload, "pullrequest")

Raised == [raise |-> TRUE]
Returned(v) == [raise |-> FALSE, v |-> v]

\* v.get(k1, {}).get(k2, {}) ... .get(kn, last): AttributeError when a value
\* on the way is not a dict
RECURSIVE GetPath(_, _, _)
GetPath(v, path, last) ==
  IF path = <<>> THEN Returned(v)
  ELSE IF ~IsDict(v) THEN Raised
  ELSE GetPath(Get(v, Head(path), IF Len(path) = 1 THEN last ELSE PDict(<<>>)),
               Tail(path), last)

\* lines 85-97
extract_pr_info(payload) ==
  LET pullrequest == Get(payload, "pullrequest", PDict(<<>>))
      id == GetPath(pullrequest, <<"id">>, PNone)
      title == GetPath(pullrequest, <<"title">>, PNone)
      source == GetPath(pullrequest, <<"source", "branch", "name">>, PNone)
      dest == GetPath(pullrequest, <<"destination", "branch", "name">>, PNone)
      full_name ==
        GetPath(pullrequest, <<"destination", "repository", "full_name">>, PNone)
      links == GetPath(pullrequest, <<"links">>, PDict(<<>>))
  IN IF ~IsDict(payload) \/ id.raise \/ title.raise \/ source.raise
        \/ dest.raise \/ full_name.raise \/ links.raise
     THEN Raised
     ELSE Returned([id |-> id.v,
                    title |-> title.v,
                    source_branch |-> source.v,
                    destination_branch |-> dest.v,
                    repository |-> [full_name |-> full_name.v],
                    links |-> links.v])

(***************************************************************************)
(* Bitbucket client: bitbucket_client.py.  The answer of the host to one   *)
(* HTTP request is its status code, TransportError when the request        *)
(* raised instead (connection error, timeout).                             *)
(***************************************************************************)
TransportError == 0

\* bool(v)
Truthy(v) ==
  CASE v.t = "None" -> FALSE
    [] v.t = "int" -> v.n # 0
    [] v.t = "float" -> TRUE
    [] v.t = "str" -> v.s # <<>>
    [] v.t = "list" -> v.xs # <<>>
    [] v.t = "dict" -> v.kv # <<>>

\* str(v), as an f-string formats v
Str(v) ==
  CASE v.t = "None" -> <<"None">>
    [] v.t = "int" -> <<TokenOfInt(v.n)>>
    [] v.t = "float" -> <<v.tok>>
    [] v.t = "str" -> v.s
    [] v.t = "list" -> <<"[">> \o DumpsElems(v.xs) \o <<"]">>
    [] v.t = "dict" -> <<"{">> \o DumpsMembers(v.kv) \o <<"}">>

BITBUCKET_API_BASE == <<"https://api.bitbucket.org/2.0">>

\* lines 78-82 and 168-172
CommentsUrl(pr_info) ==
  BITBUCKET_API_BASE \o <<"/repositories/">> \o Str(pr_info.repository.full_name)
    \o <<"/pullrequests/">> \o Str(pr_info.id) \o <<"/comments">>

\* the diff ceiling of get_pr_diff and the length of its marker without
\* the digits of the size
max_diff_size == 20000
MarkerFixedLen == 41

RECURSIVE Digits(_)
Digits(n) == IF n < 10 THEN 1 ELSE 1 + Digits(n \div 10)

\* a fetch that returns the diff whole, whatever its size
get_pr_diff_untruncated(pr_info, token, status, length) ==
  IF ~ (IsDict(pr_info.links) \/ IsStr(pr_info.links) \/ IsList(pr_info.links))
  THEN NoDiff
  ELSE IF token = <<>> THEN NoDiff
  ELSE IF status = TransportError \/ status >= 400 THEN NoDiff
  ELSE DiffText(length, 0)

\* lines 17-72: token is BITBUCKET_ACCESS_TOKEN, status and length what the
\* host answers to the GET; the result is None or the diff
get_pr_diff(pr_info, token, status, length) ==
  LET links == pr_info.links
      has_diff == IsDict(links) /\ HasKey(links, "diff")
      href_raises ==
        \/ ~ (IsDict(links) \/ IsStr(links) \/ IsList(links))
        \/ /\ has_diff
           /\ \/ ~IsDict(Lookup(links, "diff"))
              \/ ~HasKey(Lookup(links, "diff"), "href")
  IN IF href_raises THEN NoDiff
     ELSE IF token = <<>> THEN NoDiff
     ELSE IF status = TransportError \/ status >= 400 THEN NoDiff
     ELSE IF length > max_diff_size
          THEN DiffText(max_diff_size + MarkerFixedLen + Digits(length), length)
          ELSE DiffText(length, 0)

ReviewHeading == <<"## AI Code Review", NL, NL>>

\* lines 77-113: [result, sent, raw]
post_comment_to_pr(pr_info, token, comment, status) ==
  IF token = <<>> THEN [result |-> FALSE, sent |-> FALSE]
  ELSE [result |-> status # TransportError /\ status < 400,
        sent |-> TRUE,
        url |-> CommentsUrl(pr_info),
        raw |-> ReviewHeading \o Str(comment)]

RECURSIVE LStripSlash(_)
LStripSlash(s) ==
  IF s # <<>> /\ Head(s) = "/" THEN LStripSlash(Tail(s)) ELSE s

\* lines 116-133, for a file_path that is None or a text
normalize_path(file_path) ==
  IF ~Truthy(file_path) THEN <<>>
  ELSE LStripSlash(Replace(file_path.s, <<"\\">>, <<"/">>))

\* a validation without the coercion of lines 155-156
IntConvertibleIntOnly(line_number) == IsInt(line_number)

\* int(line_number) succeeds
IntConvertible(line_number) ==
  \/ IsInt(line_number)
  \/ line_number.t = "float"
  \/ /\ IsStr(line_number)
     /\ Len(Strip(line_number.s)) = 1
     /\ Strip(line_number.s)[1] \in NumberTokens

IntOf(line_number) ==
  IF IsInt(line_number) THEN line_number.n
  ELSE IF line_number.t = "float" THEN IntOfFloatToken(line_number.tok)
  ELSE IntOfToken(Strip(line_number.s)[1])

InlineRefused == [result |-> FALSE, sent |-> FALSE]

\* a success test like raise_for_status, any status below 400
post_inline_comment_any_ok(pr_info, token, file_path, line_number, comment, status) ==
  IF ~IntConvertible(line_number) THEN InlineRefused
  ELSE IF file_path.t = "None" THEN InlineRefused
  ELSE IF Truthy(file_path) /\ ~IsStr(file_path) THEN InlineRefused
  ELSE IF normalize_path(file_path) = <<>> THEN InlineRefused
  ELSE IF token = <<>> THEN InlineRefused
  ELSE [result |-> status # TransportError /\ status < 400,
        sent |-> TRUE,
        url |-> CommentsUrl(pr_info),
        raw |-> comment,
        path |-> normalize_path(file_path),
        to |-> IntOf(line_number)]

\* lines 152-235: [result, sent, and what was sent]
post_inline_comment_to_pr(pr_info, token, file_path, line_number, comment, status) ==
  IF ~IntConvertible(line_number) THEN InlineRefused
  ELSE IF file_path.t = "None" THEN InlineRefused
  ELSE IF Truthy(file_path) /\ ~IsStr(file_path) THEN InlineRefused
  ELSE IF normalize_path(file_path) = <<>> THEN InlineRefused
  ELSE IF token = <<>> THEN InlineRefused
  ELSE [result |-> status \in {200, 201},
        sent |-> TRUE,
        url |-> CommentsUrl(pr_info),
        raw |-> comment,
        path |-> normalize_path(file_path),
        to |-> IntOf(line_number)]

(***************************************************************************)
(* Comment Dispatcher: the loops of webhook() in app.py, one item at a     *)
(* time.  A step on an item skips it, raises, or prepares an inline post.  *)
(***************************************************************************)
\* the tokens \w matches at their first character
Words == {"python", "javascript", "typescript", "html", "css", "java", "cpp",
          "ruby", "go", "php", "text", "json", "x", "fix", "use", "doc", "here"}

UpperToken(tok) ==
  CASE tok = "bug" -> "BUG"
    [] tok = "quality" -> "QUALITY"
    [] tok = "security" -> "SECURITY"
    [] OTHER -> tok

LowerToken(tok) ==
  CASE tok = ".PY" -> ".py"
    [] tok = ".JS" -> ".js"
    [] OTHER -> tok

RECURSIVE Upper(_)
Upper(s) == IF s = <<>> THEN <<>> ELSE <<UpperToken(Head(s))>> \o Upper(Tail(s))

\* the tokens that are a file extension
ExtTokens == {".py", ".PY", ".pyw", ".js", ".JS", ".jsx", ".ts", ".tsx",
              ".html", ".htm", ".css", ".java", ".c", ".cpp", ".cc", ".h",
              ".hpp", ".rb", ".go", ".php", ".txt", ".md"}

\* os.path.splitext(path)[1].lower(), for a text path; <<>> for no extension
FileExt(path) ==
  IF Len(path) >= 2 /\ path[Len(path)] \in ExtTokens
     /\ path[Len(path) - 1] \notin {"/", "\\"}
  THEN <<LowerToken(path[Len(path)])>> ELSE <<>>

\* lines 157-178; <<>> is the empty lang
FileCommentLang(file_ext) ==
  CASE file_ext \in {<<".py">>, <<".pyw">>} -> <<"python">>
    [] file_ext \in {<<".js">>, <<".jsx">>} -> <<"javascript">>
    [] file_ext \in {<<".ts">>, <<".tsx">>} -> <<"typescript">>
    [] file_ext \in {<<".html">>, <<".htm">>} -> <<"html">>
    [] file_ext \in {<<".css">>} -> <<"css">>
    [] file_ext \in {<<".java">>} -> <<"java">>
    [] file_ext \in {<<".c">>, <<".cpp">>, <<".cc">>, <<".h">>, <<".hpp">>} -> <<"cpp">>
    [] file_ext \in {<<".rb">>} -> <<"ruby">>
    [] file_ext \in {<<".go">>} -> <<"go">>
    [] file_ext \in {<<".php">>} -> <<"php">>
    [] OTHER -> <<>>

\* lines 208-220
DocLang(file_ext) ==
  CASE file_ext \in {<<".py">>, <<".pyw">>} -> <<"python">>
    [] file_ext \in {<<".js">>, <<".jsx">>} -> <<"javascript">>
    [] file_ext \in {<<".ts">>, <<".tsx">>} -> <<"typescript">>
    [] file_ext \in {<<".java">>} -> <<"java">>
    [] file_ext \in {<<".c">>, <<".cpp">>, <<".cc">>, <<".h">>, <<".hpp">>} -> <<"cpp">>
    [] OTHER -> <<"text">>

\* re.search(r"```\w+", text)
HasTaggedFence(text) ==
  \E i \in 1..(Len(text) - 1) : text[i] = FENCE /\ text[i + 1] \in Words

\* line 181
AnnotateFences(text, lang) ==
  Replace(text, <<FENCE, NL>>, <<FENCE>> \o lang \o <<NL>>)

\* "key" in item raises TypeError: item is not a container
InRaises(item) == item.t \in {"None", "int"}

\* all of the keys are in item (in a text or a list the keys of the model
\* are never found)
HasKeys(item, keys) == IsDict(item) /\ \A k \in keys : HasKey(item, k)

Skip == [kind |-> "skip"]
Raise == [kind |-> "raise"]
Post(file_path, line_number, category, comment_text) ==
  [kind |-> "post", file |-> file_path, line |-> line_number,
   category |-> category, comment |-> comment_text]

\* lines 141-181: the item of file_comments up to the inline post
PrepareFileComment(comment) ==
  IF InRaises(comment) THEN Raise
  ELSE IF ~HasKeys(comment, {"file", "line_number", "comment"}) THEN Skip
  ELSE
    LET file_path == Lookup(comment, "file")
        line_number == Lookup(comment, "line_number")
        text0 == Lookup(comment, "comment")
        has_category == HasKey(comment, "category")
        category == Get(comment, "category", PStr(<<"general">>))
        text1 == IF has_category /\ IsStr(category)
                 THEN PStr(<<"[">> \o Upper(category.s) \o <<"]", " ">> \o Str(text0))
                 ELSE text0
        untagged == IsStr(text1) /\ Contains(text1.s, <<FENCE>>)
                      /\ ~HasTaggedFence(text1.s)
        lang == FileCommentLang(FileExt(file_path.s))
        text2 == IF untagged /\ lang # <<>>
                 THEN PStr(AnnotateFences(text1.s, lang)) ELSE text1
    IN IF has_category /\ ~IsStr(category) THEN Raise  \* .upper()
       ELSE IF text1.t \in {"None", "int"} THEN Raise  \* "```" in comment_text
       ELSE IF untagged /\ ~IsStr(file_path) THEN Raise  \* os.path.splitext
       ELSE Post(file_path, line_number, category, text2)

DocHeading == <<"**Suggested Documentation:**">>

\* lines 199-223: the item of documentation up to the inline post
PrepareDocNote(doc) ==
  IF InRaises(doc) THEN Raise
  ELSE IF ~HasKeys(doc, {"file", "line_number", "doc_comment"}) THEN Skip
  ELSE
    LET file_path == Lookup(doc, "file")
        line_number == Lookup(doc, "line_number")
        doc_comment == Lookup(doc, "doc_comment")
        lang == DocLang(FileExt(file_path.s))
        doc_text == DocHeading \o <<NL, FENCE>> \o lang \o <<NL>>
                      \o Str(doc_comment) \o <<NL, FENCE>>
    IN IF ~IsStr(file_path) THEN Raise  \* os.path.splitext
       ELSE Post(file_path, line_number, PStr(<<"documentation">>), PStr(doc_text))

FallbackHeading == <<"## Inline Comments (Could not post directly)", NL, NL>>

\* line 246: the entry of one failed comment
FallbackEntry(comment) ==
  <<"**">> \o Str(comment.file) \o <<" (line ">> \o Str(comment.line)
    \o <<"):**", NL>> \o Str(comment.comment) \o <<NL, NL, "---", NL, NL>>

RECURSIVE FallbackEntries(_)
FallbackEntries(failed) ==
  IF failed = <<>> THEN <<>>
  ELSE FallbackEntry(Head(failed)) \o FallbackEntries(Tail(failed))

\* lines 242-246
FallbackText(failed) == FallbackHeading \o FallbackEntries(failed)

\* line 133 raises
OverallRaises(analysis) == InRaises(analysis)

\* line 133: "overall_comment" in analysis
HasOverall(analysis) == IsDict(analysis) /\ HasKey(analysis, "overall_comment")

\* analysis.get(key, []) raises, or iterating over what it returns does
ItemsRaise(analysis, key) ==
  \/ ~IsDict(analysis)
  \/ Get(analysis, key, PList(<<>>)).t \in {"None", "int"}

\* the items the loop over analysis.get(key, []) visits; iterating over a
\* text or over a dict yields characters or keys, which the loop skips
Items(analysis, key) ==
  LET v == Get(analysis, key, PList(<<>>)) IN
  IF IsList(v) THEN v.xs ELSE <<>>

(***************************************************************************)
(* The inputs of the model: clients, requests, answers of the host and of  *)
(* the backend.                                                            *)
(***************************************************************************)
\* the requests one behaviour serves, and the items one review carries
MaxRequests == 2
MaxItems == 2

Clients == {"10.0.0.1", "10.0.0.2"}

Secret == <<"s3cret">>
Secrets == {<<>>, Secret}
\* the keys a sender may sign with
SenderKeys == {Secret, <<"wrong", "key">>}
Tokens == {<<>>, <<"token">>}

Dict2(k1, v1, k2, v2) == PDict(<< <<Key(k1), v1>>, <<Key(k2), v2>> >>)
Dict3(k1, v1, k2, v2, k3, v3) ==
  PDict(<< <<Key(k1), v1>>, <<Key(k2), v2>>, <<Key(k3), v3>> >>)
Dict4(k1, v1, k2, v2, k3, v3, k4, v4) ==
  PDict(<< <<Key(k1), v1>>, <<Key(k2), v2>>, <<Key(k3), v3>>, <<Key(k4), v4>> >>)

PathX == PStr(<<"src", "/", "x", ".py">>)
RepoName == PStr(<<"acme/widgets">>)

\* webhook payloads: a pull request, another event, a null pull request
PullRequestPayload ==
  PDict(<< <<Key("pullrequest"),
             Dict2("id", PInt(42),
                   "destination",
                   PDict(<< <<Key("repository"),
                              PDict(<< <<Key("full_name"), RepoName>> >>)>> >>))>> >>)
PushPayload == PDict(<< <<Key("repository"), PDict(<<>>)>> >>)
NullPullRequestPayload == PDict(<< <<Key("pullrequest"), PNone>> >>)

\* raw bodies: the payloads as JSON, null, and a body that is no JSON
Bodies == {Dumps(PullRequestPayload), Dumps(PushPayload),
           Dumps(NullPullRequestPayload), Dumps(PNone), <<"not", "json">>}

EventKeys == {<<"pullrequest:created">>, <<"pullrequest:updated">>, <<"repo:push">>}

\* the headers of a request: none, or a signature of the body under one of
\* the sender keys, bare or prefixed, and possibly an event key
SignatureHeaders(data) ==
  {<<>>}
    \cup {[h \in {"X-Hub-Signature-256"} |-> Sha256Prefix \o HmacHexDigest(k, data)] :
            k \in SenderKeys}
    \cup {[h \in {"X-Hub-Signature"} |-> HmacHexDigest(k, data)] : k \in SenderKeys}

EventHeaders ==
  {<<>>} \cup {[h \in {"X-Event-Key"} |-> e] :
                 e \in {<<"pullrequest:created">>, <<"repo:push">>}}

\* the items of a review
FcGood == Dict4("file", PathX, "line_number", PInt(10),
                "category", PStr(<<"bug">>), "comment", PStr(<<"fix">>))
FcFenced == Dict4("file", PathX, "line_number", PInt(10),
                  "category", PStr(<<"quality">>),
                  "comment", PStr(<<"use", FENCE, NL, "x", NL, FENCE, NL, "here">>))
FcNoLine == Dict2("file", PathX, "comment", PStr(<<"fix">>))
FcBadLine == Dict3("file", PathX, "line_number", PStr(<<"abc">>),
                   "comment", PStr(<<"fix">>))
FcNullFile == Dict3("file", PNone, "line_number", PInt(10),
                    "comment", PStr(<<"fix">>))
FcNullCategory == Dict4("file", PathX, "line_number", PInt(10),
                        "category", PNone, "comment", PStr(<<"fix">>))
FileCommentItems ==
  {FcGood, FcFenced, FcNoLine, FcBadLine, FcNullFile, FcNullCategory, PInt(5)}

DnGood == Dict3("file", PathX, "line_number", PInt(5), "doc_comment", PStr(<<"doc">>))
DnNullFile == Dict3("file", PNone, "line_number", PInt(5),
                    "doc_comment", PStr(<<"doc">>))
DnNoText == Dict2("file", PathX, "line_number", PInt(5))
DocNoteItems == {DnGood, DnNullFile, DnNoText}

SeqsUpTo(S, n) == UNION {[1..k -> S] : k \in 0..n}

\* a review in the structure the prompt asks for
Review(overall, fcs, dns) ==
  Dict3("overall_comment", PStr(overall),
        "file_comments", PList(fcs), "documentation", PList(dns))

Reviews ==
  {Review(<<"fix">>, fcs, dns) :
     <<fcs, dns>> \in {p \in SeqsUpTo(FileCommentItems, MaxItems)
                              \X SeqsUpTo(DocNoteItems, MaxItems) :
                         Len(p[1]) + Len(p[2]) <= MaxItems}}

\* JSON values that are not a review
Malformed ==
  {PInt(42), PList(<<>>), PStr(<<"fix">>),
   Dict2("overall_comment", PStr(<<"fix">>), "file_comments", PInt(5)),
   PDict(<< <<Key("file_comments"), PList(<<FcBadLine>>)>> >>)}

JsonFenced(text) == <<FENCE, "json", NL>> \o text \o <<NL, FENCE>>

ProseResponse == <<"use", "x", NL, NL, "here">>
ErrorResponse == <<"Error:", "Unexpected response format from AI service.">>

\* what call_openai_api may return
AllResponses ==
  {Dumps(v) : v \in Reviews \cup Malformed}
    \cup {JsonFenced(Dumps(Review(<<"fix">>, <<FcGood>>, <<>>))),
          ProseResponse, ErrorResponse}

SomeResponses ==
  {Dumps(Review(<<"fix">>, <<FcGood>>, <<DnGood>>)),
   Dumps(Review(<<"fix">>, <<FcBadLine, FcGood>>, <<>>)),
   Dumps(Review(<<"fix">>, <<FcBadLine, FcNullCategory>>, <<>>)),
   Dumps(Review(<<"fix">>, <<FcNoLine>>, <<DnNullFile, DnGood>>)),
   Dumps(Review(<<"fix">>, <<FcNoLine, FcGood>>, <<>>)),
   Dumps(PInt(42)),
   JsonFenced(Dumps(Review(<<"fix">>, <<FcGood>>, <<>>))),
   ProseResponse, ErrorResponse}

\* the status codes of the host, with TransportError for no answer
Statuses == {TransportError, 200, 201, 204, 400}

\* the lengths of the diffs the host returns
DiffLengths == {0, 100, max_diff_size + 1, LargeDiffKB * KB + 1}

(***************************************************************************)
(* The state: the configuration read from the environment, the rate-limit  *)
(* counters, and the webhook request in flight with the locals of          *)
(* webhook() that later steps read.                                        *)
(***************************************************************************)
VARIABLES
  WEBHOOK_SECRET,          \* webhook_utils.py:12
  BITBUCKET_ACCESS_TOKEN,  \* bitbucket_client.py:11, <<>> when not set
  API_RATE_LIMIT,          \* app.py:39
  request_counts,          \* app.py:45: client -> hour -> count
  clock,                   \* the hour datetime.now() falls in
  pc,                      \* the stage the request in flight is at
  request,                 \* flask.request
  response,                \* what the request was answered
  pr_info, diff, analysis, \* locals of webhook()
  index,                   \* the position of the loop at hand
  failed_comments,         \* app.py:137
  log,                     \* the calls made for the request, in order
  served,                  \* the requests received so far
  checked,                 \* client -> [hour, n, ...]: its checks in its latest hour
  threads,                 \* the concurrent admission checks (SpecThreads)
  calls                    \* the analyses made so far (SpecAnalyze)

vars == <<WEBHOOK_SECRET, BITBUCKET_ACCESS_TOKEN, API_RATE_LIMIT, request_counts,
          clock, pc, request, response, pr_info, diff, analysis, index,
          failed_comments, log, served, checked, threads, calls>>

config == <<WEBHOOK_SECRET, BITBUCKET_ACCESS_TOKEN, API_RATE_LIMIT>>
locals == <<pr_info, diff, analysis, index, failed_comments>>

\* the default of API_RATE_LIMIT, and the values the model configures
DefaultRateLimit == 60
RateLimits == {1, 2, DefaultRateLimit}

MaxHours == 2
Hours == 1..MaxHours

Merge(f, g) ==
  [x \in DOMAIN f \cup DOMAIN g |-> IF x \in DOMAIN f THEN f[x] ELSE g[x]]

NoRequest == [remote_addr |-> "", headers |-> <<>>, data |-> <<>>]
Requests ==
  {[remote_addr |-> c, headers |-> Merge(sig, ev), data |-> body] :
     c \in Clients, ev \in EventHeaders,
     <<body, sig>> \in {p \in Bodies \X UNION {SignatureHeaders(b) : b \in Bodies} :
                          p[2] \in SignatureHeaders(p[1])}}

\* the answers: jsonify(...) with its status code, and what Flask answers
\* when the view raises
Resp(code, status, message) ==
  [code |-> code, status |-> status, message |-> message,
   pr_id |-> PNone, repo |-> PNone]
NoResponse == Resp(0, "", <<>>)
NoSignature == Resp(401, "error", <<"No signature provided">>)
InvalidSignature == Resp(401, "error", <<"Invalid signature">>)
SignatureError == Resp(401, "error", <<"Signature validation error">>)
RateLimited(limit) ==
  Resp(429, "error",
       <<"Rate limit exceeded. Maximum", TokenOfLimit(limit), "requests per hour.">>)
Ignored == Resp(200, "ignored", <<"Not a PR event">>)
DiffFailed == Resp(500, "error", <<"Failed to retrieve PR diff">>)
Success(info) ==
  [code |-> 200, status |-> "success",
   message |-> <<"PR analyzed and comments posted">>,
   pr_id |-> info.id, repo |-> info.repository.full_name]
\* an exception that leaves the view: Flask's own 500 page
Unhandled == Resp(500, "unhandled", <<"Internal Server Error">>)
\* request.json on a body that is no JSON: werkzeug's BadRequest page
BadRequest == Resp(400, "unhandled", <<"Bad Request">>)

NoPrInfo == [id |-> PNone, title |-> PNone, source_branch |-> PNone,
             destination_branch |-> PNone,
             repository |-> [full_name |-> PNone], links |-> PDict(<<>>)]

(***************************************************************************)
(* Request Admission Guard: rate_limit in app.py.                          *)
(***************************************************************************)
\* a bucket that keeps the counts of the earlier hours
IncrementKeepingHours(counts, client, hour) ==
  LET old == IF client \in DOMAIN counts THEN counts[client] ELSE <<>>
      bucket == IF hour \in DOMAIN old THEN old
                ELSE Merge([h \in {hour} |-> 0], old)
  IN Merge([c \in {client} |-> [bucket EXCEPT ![hour] = @ + 1]], counts)

\* lines 57-65: request_counts after the check of client in hour
Increment(counts, client, hour) ==
  LET old == IF client \in DOMAIN counts THEN counts[client] ELSE <<>>
      bucket == IF hour \in DOMAIN old THEN old ELSE [h \in {hour} |-> 0]
  IN Merge([c \in {client} |-> [bucket EXCEPT ![hour] = @ + 1]], counts)

\* line 66
Count(counts, client, hour) == counts[client][hour]

\* a comparison that rejects the check that reaches the ceiling
OverLimitInclusive(count, limit) == count >= limit

\* line 69
OverLimit(count, limit) == count > limit

\* the checks of client in its latest hour, after one more in hour, and
\* whether the hour before that ended with the client rejected
Checked(ch, client, hour) ==
  [ch EXCEPT ![client] =
     IF @.hour = hour THEN [@ EXCEPT !.n = @ + 1]
     ELSE [hour |-> hour, n |-> 1, rejected_before |-> @.n > API_RATE_LIMIT]]

(***************************************************************************)
(* The webhook view, app.py lines 92-258, as the steps of one request.     *)
(* The decorators of the view run outermost first.                         *)
(***************************************************************************)
\* the decorators the other way round
DecoratorStackSwapped == <<"rate_limit", "verify_webhook_signature">>

\* lines 93-94
DecoratorStack == <<"verify_webhook_signature", "rate_limit">>

StageAfter(stage) ==
  LET i == CHOOSE j \in 1..Len(DecoratorStack) : DecoratorStack[j] = stage IN
  IF i < Len(DecoratorStack) THEN DecoratorStack[i + 1] ELSE "webhook"

Stage(op) == [op |-> op]

\* the answer to a request in which the view, or a decorator under
\* verify_webhook_signature, raised: lines 54-56 catch it when a secret is
\* configured (the wrapped call is inside the try), else Flask answers
Fault(uncaught) ==
  IF WEBHOOK_SECRET # <<>> THEN SignatureError ELSE uncaught

End(resp) ==
  /\ response' = resp
  /\ pc' = "idle"

Receive(max) ==
  /\ pc = "idle"
  /\ served < max
  /\ \E r \in Requests : request' = r
  /\ served' = served + 1
  /\ pc' = DecoratorStack[1]
  /\ response' = NoResponse
  /\ log' = <<>>
  /\ pr_info' = NoPrInfo
  /\ diff' = NoDiff
  /\ analysis' = PNone
  /\ index' = 0
  /\ failed_comments' = <<>>
  /\ UNCHANGED <<config, request_counts, clock, checked, threads, calls>>

\* webhook_utils.py lines 17-56
VerifySignature ==
  /\ pc = "verify_webhook_signature"
  /\ log' = Append(log, Stage("verify_webhook_signature"))
  /\ LET verdict == SignatureVerdict(WEBHOOK_SECRET, request) IN
       CASE verdict = "allow" ->
              /\ pc' = StageAfter("verify_webhook_signature")
              /\ UNCHANGED response
         [] verdict = "none" -> End(NoSignature)
         [] verdict = "invalid" -> End(InvalidSignature)
         [] verdict = "error" -> End(SignatureError)
  /\ UNCHANGED <<config, request_counts, clock, request, locals, served,
                 checked, threads, calls>>

\* app.py lines 50-76
RateLimit ==
  /\ pc = "rate_limit"
  /\ log' = Append(log, Stage("rate_limit"))
  /\ request_counts' = Increment(request_counts, request.remote_addr, clock)
  /\ checked' = Checked(checked, request.remote_addr, clock)
  /\ IF OverLimit(Count(request_counts', request.remote_addr, clock), API_RATE_LIMIT)
     THEN End(RateLimited(API_RATE_LIMIT))
     ELSE /\ pc' = StageAfter("rate_limit")
          /\ UNCHANGED response
  /\ UNCHANGED <<config, clock, request, locals, served, threads, calls>>

\* datetime.now() passes into the next hour
Tick ==
  /\ clock < MaxHours
  /\ clock' = clock + 1
  /\ UNCHANGED <<config, request_counts, pc, request, response, locals, log,
                 served, checked, threads, calls>>

\* app.py lines 97-110; the request is not read after them
Classify ==
  /\ pc = "webhook"
  /\ log' = Append(log, Stage("is_pull_request_event"))
  /\ LET payload == JsonLoads(request.data) IN
       IF ~payload.ok
       THEN End(Fault(BadRequest)) /\ UNCHANGED pr_info
       ELSE IF ~is_pull_request_event(payload.v, request.headers)
       THEN End(Ignored) /\ UNCHANGED pr_info
       ELSE IF extract_pr_info(payload.v).raise
       THEN End(Fault(Unhandled)) /\ UNCHANGED pr_info
       ELSE /\ pr_info' = extract_pr_info(payload.v).v
            /\ pc' = "get_pr_diff"
            /\ UNCHANGED response
  /\ request' = NoRequest
  /\ UNCHANGED <<config, request_counts, clock, diff, analysis, index,
                 failed_comments, served, checked, threads, calls>>

\* app.py lines 113-116
FetchDiff ==
  /\ pc = "get_pr_diff"
  /\ log' = Append(log, Stage("get_pr_diff"))
  /\ \E status \in Statuses, length \in DiffLengths :
       diff' = get_pr_diff(pr_info, BITBUCKET_ACCESS_TOKEN, status, length)
  /\ IF diff'.t = "None" \/ diff'.len = 0
     THEN End(DiffFailed)
     ELSE pc' = "analyze_code_with_ai" /\ UNCHANGED response
  /\ UNCHANGED <<config, request_counts, clock, request, pr_info, analysis,
                 index, failed_comments, served, checked, threads, calls>>

\* app.py line 126, the backend answering one of responses; the diff is
\* not read after it
Analyze(responses) ==
  /\ pc = "analyze_code_with_ai"
  /\ \E response_content \in responses :
       analysis' = analyze_code_with_ai(diff, response_content)
  /\ log' = Append(log, [op |-> "analyze_code_with_ai",
                         called |-> CallsBackend(diff)])
  /\ diff' = NoDiff
  /\ pc' = "overall_comment"
  /\ UNCHANGED <<config, request_counts, clock, request, response, pr_info,
                 index, failed_comments, served, checked, threads, calls>>

\* the statuses the host may answer a post with; the status of a post
\* that is not sent does not matter
AnswersTo(sent) == IF sent THEN Statuses ELSE {TransportError}

CommentSent == BITBUCKET_ACCESS_TOKEN # <<>>

\* app.py lines 133-134
PostOverall ==
  /\ pc = "overall_comment"
  /\ IF OverallRaises(analysis)
     THEN End(Fault(Unhandled)) /\ UNCHANGED log
     ELSE /\ pc' = "file_comments"
          /\ UNCHANGED response
          /\ IF HasOverall(analysis)
             THEN \E status \in AnswersTo(CommentSent) :
                    log' = Append(log,
                      [op |-> "post_comment_to_pr", purpose |-> "overall",
                       comment |-> Lookup(analysis, "overall_comment"),
                       call |-> post_comment_to_pr(pr_info, BITBUCKET_ACCESS_TOKEN,
                                  Lookup(analysis, "overall_comment"), status)])
             ELSE UNCHANGED log
  /\ index' = 1
  /\ UNCHANGED <<config, request_counts, clock, request, pr_info, diff, analysis,
                 failed_comments, served, checked, threads, calls>>

\* one attempt to place the prepared comment p of the item at index of
\* the group inline (lines 185-195 and 227-237)
Attempt(group, p) ==
  \E status \in AnswersTo(post_inline_comment_to_pr(pr_info, BITBUCKET_ACCESS_TOKEN,
                            p.file, p.line, p.comment, 200).sent) :
    LET call == post_inline_comment_to_pr(pr_info, BITBUCKET_ACCESS_TOKEN,
                                          p.file, p.line, p.comment, status)
    IN /\ log' = Append(log, [op |-> "post_inline_comment_to_pr", group |-> group,
                              index |-> index, file |-> p.file, line |-> p.line,
                              comment |-> p.comment, call |-> call])
       /\ failed_comments' =
            IF call.result THEN failed_comments
            ELSE Append(failed_comments,
                        [file |-> p.file, line |-> p.line,
                         category |-> p.category, comment |-> p.comment])

\* one round of the loop over the items under key, prepared by Prepare
LoopStep(key, prepared, next) ==
  IF ItemsRaise(analysis, key)
  THEN End(Fault(Unhandled)) /\ UNCHANGED <<index, failed_comments, log>>
  ELSE IF index > Len(Items(analysis, key))
  THEN /\ pc' = next
       /\ index' = 1
       /\ UNCHANGED <<response, failed_comments, log>>
  ELSE CASE prepared.kind = "raise" ->
              End(Fault(Unhandled)) /\ UNCHANGED <<index, failed_comments, log>>
         [] prepared.kind = "skip" ->
              /\ index' = index + 1
              /\ UNCHANGED <<pc, response, failed_comments, log>>
         [] prepared.kind = "post" ->
              /\ Attempt(key, prepared)
              /\ index' = index + 1
              /\ UNCHANGED <<pc, response>>

\* a loop that walks file_comments from its end
FileCommentStepReversed ==
  /\ pc = "file_comments"
  /\ LoopStep("file_comments",
              PrepareFileComment(
                Items(analysis, "file_comments")
                  [Len(Items(analysis, "file_comments")) - index + 1]),
              "documentation")
  /\ UNCHANGED <<config, request_counts, clock, request, pr_info, diff, analysis,
                 served, checked, threads, calls>>

\* app.py lines 140-195
FileCommentStep ==
  /\ pc = "file_comments"
  /\ LoopStep("file_comments",
              PrepareFileComment(Items(analysis, "file_comments")[index]),
              "documentation")
  /\ UNCHANGED <<config, request_counts, clock, request, pr_info, diff, analysis,
                 served, checked, threads, calls>>

\* app.py lines 198-237
DocNoteStep ==
  /\ pc = "documentation"
  /\ LoopStep("documentation",
              PrepareDocNote(Items(analysis, "documentation")[index]),
              "fallback")
  /\ UNCHANGED <<config, request_counts, clock, request, pr_info, diff, analysis,
                 served, checked, threads, calls>>

\* app.py lines 240-258
Finish ==
  /\ pc = "fallback"
  /\ IF failed_comments # <<>>
     THEN \E status \in AnswersTo(CommentSent) :
            log' = Append(log,
              [op |-> "post_comment_to_pr", purpose |-> "fallback",
               comment |-> PStr(FallbackText(failed_comments)),
               call |-> post_comment_to_pr(pr_info, BITBUCKET_ACCESS_TOKEN,
                          PStr(FallbackText(failed_comments)), status)])
     ELSE UNCHANGED log
  /\ End(Success(pr_info))
  /\ UNCHANGED <<config, request_counts, clock, request, locals, served,
                 checked, threads, calls>>

(***************************************************************************)
(* The application: webhook requests, one after another.                   *)
(***************************************************************************)
\* the process has started and has served nothing yet
Fresh ==
  /\ request_counts = <<>>
  /\ clock = 1
  /\ pc = "idle"
  /\ request = NoRequest
  /\ response = NoResponse
  /\ pr_info = NoPrInfo
  /\ diff = NoDiff
  /\ analysis = PNone
  /\ index = 0
  /\ failed_comments = <<>>
  /\ log = <<>>
  /\ served = 0
  /\ checked = [c \in Clients |-> [hour |-> 0, n |-> 0, rejected_before |-> FALSE]]

Init ==
  /\ WEBHOOK_SECRET \in Secrets
  /\ BITBUCKET_ACCESS_TOKEN \in Tokens
  /\ API_RATE_LIMIT \in RateLimits
  /\ Fresh
  /\ threads = <<>>
  /\ calls = <<>>

Next ==
  \/ Receive(MaxRequests)
  \/ VerifySignature
  \/ RateLimit
  \/ Tick
  \/ Classify
  \/ FetchDiff
  \/ Analyze(SomeResponses)
  \/ PostOverall
  \/ FileCommentStep
  \/ DocNoteStep
  \/ Finish

Spec == Init /\ [][Next]_vars

(***************************************************************************)
(* Properties of the webhook pipeline (Spec).                              *)
(***************************************************************************)
\* a request has been answered and no other is in flight
Answered == pc = "idle" /\ served > 0

Ops == [i \in 1..Len(log) |-> log[i].op]

\* the request got as far as the Comment Dispatcher
Dispatched == \E i \in 1..Len(log) : log[i].op = "analyze_code_with_ai"

\* the analysis is a review: a dict whose two lists are lists
IsReview(v) ==
  /\ IsDict(v)
  /\ IsList(Get(v, "file_comments", PList(<<>>)))
  /\ IsList(Get(v, "documentation", PList(<<>>)))

ReviewItems(group) == IF IsReview(analysis) THEN Items(analysis, group) ELSE <<>>

Groups == {"file_comments", "documentation"}

InlineAttempts ==
  {i \in 1..Len(log) : log[i].op = "post_inline_comment_to_pr"}
FallbackPosts ==
  {i \in 1..Len(log) :
     log[i].op = "post_comment_to_pr" /\ log[i].purpose = "fallback"}

\* the attempt log[i] is listed, file, line and text, in the fallback log[j]
ListedIn(i, j) ==
  Contains(log[j].comment.s,
           FallbackEntry([file |-> log[i].file, line |-> log[i].line,
                          comment |-> log[i].comment]))

\* the item at index of group was placed inline, or is listed in a
\* fallback comment that the host accepted
Delivered(group, idx) ==
  \E i \in InlineAttempts :
    /\ log[i].group = group
    /\ log[i].index = idx
    /\ \/ log[i].call.result
       \/ \E j \in FallbackPosts : log[j].call.result /\ ListedIn(i, j)

\* C1: when a request that reached the Comment Dispatcher has been answered,
\* every item of file_comments and of documentation was placed inline or is
\* listed in a fallback comment that was posted: no item is lost.
C1_NoItemLost ==
  (Answered /\ Dispatched) =>
    \A group \in Groups :
      \A idx \in 1..Len(ReviewItems(group)) : Delivered(group, idx)

\* the entries of the failed attempts, in the order of the attempts
RECURSIVE FailedEntries(_)
FailedEntries(i) ==
  IF i > Len(log) THEN <<>>
  ELSE (IF log[i].op = "post_inline_comment_to_pr" /\ ~log[i].call.result
        THEN FallbackEntry([file |-> log[i].file, line |-> log[i].line,
                            comment |-> log[i].comment])
        ELSE <<>>) \o FailedEntries(i + 1)

\* C2: when a request that reached the Comment Dispatcher has been answered,
\* at most one fallback comment was composed, none if no inline post failed,
\* and otherwise one that lists the items whose inline post returned false,
\* each once with its file, line and text, and no other item.
C2_FailedItemsListedOnce ==
  (Answered /\ Dispatched) =>
    /\ Cardinality(FallbackPosts) <= 1
    /\ (FailedEntries(1) = <<>>) <=> (FallbackPosts = {})
    /\ \A j \in FallbackPosts :
         log[j].comment.s = FallbackHeading \o FailedEntries(1)

\* the rank of a call in the order of the pipeline
Rank(op) ==
  CASE op = "verify_webhook_signature" -> 1
    [] op = "rate_limit" -> 2
    [] op = "is_pull_request_event" -> 3
    [] op = "get_pr_diff" -> 4
    [] op = "analyze_code_with_ai" -> 5
    [] OTHER -> 6

\* C7 as stated: the admission check, with its increment, comes before the
\* signature check: whenever the signature has been checked for a request,
\* the request has been counted.
C7_AdmissionBeforeSignature ==
  \A j \in 1..Len(log) :
    log[j].op = "verify_webhook_signature" =>
      \E i \in 1..(j - 1) : log[i].op = "rate_limit"

\* C7 amended: the stages of a request run in the order signature check,
\* admission check, classification, diff fetch, analysis, dispatch, each
\* stage at most once and none before an earlier one: the signature is
\* checked before the request is counted.
C7_StageOrder ==
  /\ \A i, j \in 1..Len(log) :
       i < j => /\ Rank(log[i].op) <= Rank(log[j].op)
                /\ Rank(log[i].op) = Rank(log[j].op) => Rank(log[i].op) = 6
  /\ \A j \in 1..Len(log) : Rank(log[j].op) = j \/ Rank(log[j].op) = 6

\* a request ran through every stage and was answered success
C7_Witness ==
  /\ Answered
  /\ response.status = "success"
  /\ Len(log) > 5
  /\ SubSeq(Ops, 1, 5) = <<"verify_webhook_signature", "rate_limit",
                           "is_pull_request_event", "get_pr_diff",
                           "analyze_code_with_ai">>

LastOp == IF log = <<>> THEN "" ELSE log[Len(log)].op

\* C8: every request is answered by one of the structured responses, for
\* the reason the response names: 401 by the signature check, 429 by the
\* admission check, ignored by the classification, 500 by the diff fetch,
\* and else success with the id and the repository of the pull request.
C8_StructuredResponse ==
  Answered =>
    \/ /\ response \in {NoSignature, InvalidSignature, SignatureError}
       /\ LastOp = "verify_webhook_signature"
    \/ /\ response = RateLimited(API_RATE_LIMIT)
       /\ LastOp = "rate_limit"
    \/ /\ response = Ignored
       /\ LastOp = "is_pull_request_event"
    \/ /\ response = DiffFailed
       /\ LastOp = "get_pr_diff"
    \/ /\ response = Success(pr_info)
       /\ Dispatched

\* the item is one the loops post: a dict with the keys of its group
Postable(group, item) ==
  IF group = "file_comments"
  THEN HasKeys(item, {"file", "line_number", "comment"})
  ELSE HasKeys(item, {"file", "line_number", "doc_comment"})

\* C9: whatever is wrong with one item of a review, the request is
\* answered success and every item that has the keys of its group got its
\* inline attempt and, if that failed, its entry in the fallback comment.
C9_ItemFailureIsLocal ==
  (Answered /\ Dispatched /\ IsReview(analysis)) =>
    /\ response.status = "success"
    /\ \A group \in Groups :
         \A idx \in 1..Len(ReviewItems(group)) :
           Postable(group, ReviewItems(group)[idx]) =>
             \E i \in InlineAttempts :
               /\ log[i].group = group
               /\ log[i].index = idx
               /\ log[i].call.result
                    \/ \E j \in FallbackPosts : ListedIn(i, j)

(***************************************************************************)
(* The two decorators on their own, each around a view that answers or     *)
(* raises: rate_limit (SpecRate) and verify_webhook_signature (SpecSig).   *)
(***************************************************************************)
ViewAnswer == Resp(200, "success", <<"view">>)

\* how many checks past the ceiling a client makes in one hour
Overshoot == 2

\* app.py lines 50-76: one admission check of client, around a view
AdmissionCheck(client) ==
  /\ checked[client].hour # clock \/ checked[client].n < API_RATE_LIMIT + Overshoot
  /\ request' = [NoRequest EXCEPT !.remote_addr = client]
  /\ request_counts' = Increment(request_counts, client, clock)
  /\ checked' = Checked(checked, client, clock)
  /\ IF OverLimit(Count(request_counts', client, clock), API_RATE_LIMIT)
     THEN /\ response' = RateLimited(API_RATE_LIMIT)
          /\ log' = <<Stage("rate_limit")>>
     ELSE /\ response' = ViewAnswer
          /\ log' = <<Stage("rate_limit"), Stage("view")>>
  /\ UNCHANGED <<config, clock, pc, locals, served, threads, calls>>

InitRate ==
  /\ Init
  /\ WEBHOOK_SECRET = <<>>
  /\ BITBUCKET_ACCESS_TOKEN = <<>>

NextRate ==
  \/ \E client \in Clients : AdmissionCheck(client)
  \/ Tick

SpecRate == InitRate /\ [][NextRate]_vars

\* the values a signature header may carry for a body
HeaderValues(data) ==
  {HmacHexDigest(k, data) : k \in SenderKeys}
    \cup {Sha256Prefix \o HmacHexDigest(k, data) : k \in SenderKeys}
    \cup {<<>>, Sha256Prefix, Sha256Prefix \o Sha256Prefix \o HmacHexDigest(Secret, data),
          <<"<e-acute>">>}

\* None for a header that is not sent
HeaderOptions(data) == {[sent |-> FALSE]} \cup {[sent |-> TRUE, v |-> x] : x \in HeaderValues(data)}

HeadersOf(h256, h) ==
  Merge(IF h256.sent THEN [n \in {"X-Hub-Signature-256"} |-> h256.v] ELSE <<>>,
        IF h.sent THEN [n \in {"X-Hub-Signature"} |-> h.v] ELSE <<>>)

SigBodies == {<<>>, Dumps(PushPayload), <<"not", "json">>}

\* webhook_utils.py lines 17-56: the decorated function around a view
\* that answers or raises
VerifyDecorated ==
  /\ \E data \in SigBodies :
       \E h256 \in HeaderOptions(data), h \in HeaderOptions(data) :
         request' = [remote_addr |-> "10.0.0.1", headers |-> HeadersOf(h256, h),
                     data |-> data]
  /\ LET verdict == SignatureVerdict(WEBHOOK_SECRET, request') IN
       CASE verdict = "allow" ->
              /\ log' = <<Stage("verify_webhook_signature"), Stage("view")>>
              /\ response' \in {ViewAnswer, Fault(Unhandled)}
         [] verdict = "none" ->
              /\ log' = <<Stage("verify_webhook_signature")>>
              /\ response' = NoSignature
         [] verdict = "invalid" ->
              /\ log' = <<Stage("verify_webhook_signature")>>
              /\ response' = InvalidSignature
         [] verdict = "error" ->
              /\ log' = <<Stage("verify_webhook_signature")>>
              /\ response' = SignatureError
  /\ UNCHANGED <<config, request_counts, clock, pc, locals, served, checked,
                 threads, calls>>

InitSig ==
  /\ Init
  /\ BITBUCKET_ACCESS_TOKEN = <<>>
  /\ API_RATE_LIMIT = DefaultRateLimit

NextSig == VerifyDecorated

SpecSig == InitSig /\ [][NextSig]_vars

\* the view behind a decorator ran
ViewRan == \E i \in 1..Len(log) : log[i].op = "view"

\* the header the verifier reads: X-Hub-Signature-256 when it is sent with
\* a value, else X-Hub-Signature
PresentedSignature ==
  IF "X-Hub-Signature-256" \in DOMAIN request.headers
       /\ request.headers["X-Hub-Signature-256"] # <<>>
  THEN request.headers["X-Hub-Signature-256"]
  ELSE IF "X-Hub-Signature" \in DOMAIN request.headers
  THEN request.headers["X-Hub-Signature"]
  ELSE <<>>

\* the hex digest of the body under the configured secret
ExpectedDigest == HmacHexDigest(WEBHOOK_SECRET, request.data)

CarriesDigest ==
  \/ PresentedSignature = ExpectedDigest
  \/ PresentedSignature = <<"sha256=">> \o ExpectedDigest

\* C3: with a secret configured, verify_webhook_signature lets a request
\* through to the wrapped view exactly when the signature header
\* (X-Hub-Signature-256, else X-Hub-Signature) carries the hex HMAC-SHA256
\* digest of the body under the secret, bare or with the sha256= prefix; for
\* a missing header and for any other value the answer is 401 and the view
\* is not invoked.
C3_SignatureDecides ==
  (WEBHOOK_SECRET # <<>> /\ request # NoRequest) =>
     /\ ViewRan <=> CarriesDigest
     /\ ~CarriesDigest => (response.code = 401 /\ response.status = "error")

\* a bare digest in X-Hub-Signature is let through to the view
C3_Witness ==
  /\ WEBHOOK_SECRET # <<>>
  /\ request # NoRequest
  /\ "X-Hub-Signature-256" \notin DOMAIN request.headers
  /\ PresentedSignature = ExpectedDigest
  /\ ViewRan
  /\ response = ViewAnswer

\* the client of the latest admission check, and its number in the hour
LastClient == request.remote_addr
LastCheckNumber == checked[LastClient].n

\* C5: across sequential admission checks for one client within one hour,
\* the k-th check is allowed exactly when k is at most the configured
\* ceiling (60 by default); every check increments the counter, a rejected
\* one too; a rejected check is answered 429 with a message that states the
\* ceiling.
C5_SequentialRateLimit ==
  request # NoRequest =>
     /\ ViewRan <=> LastCheckNumber <= API_RATE_LIMIT
     /\ LastCheckNumber > API_RATE_LIMIT =>
          /\ response.code = 429
          /\ response.status = "error"
          /\ response.message =
               <<"Rate limit exceeded. Maximum", TokenOfLimit(API_RATE_LIMIT),
                 "requests per hour.">>
     /\ \A c \in Clients :
          checked[c].n > 0 =>
            request_counts[c][checked[c].hour] = checked[c].n

\* the 61st check of a client in one hour under the default ceiling is
\* rejected, and counted
C5_Witness ==
  /\ request # NoRequest
  /\ API_RATE_LIMIT = 60
  /\ LastCheckNumber = 61
  /\ request_counts[LastClient][checked[LastClient].hour] = 61
  /\ response.code = 429
  /\ ~ViewRan

(***************************************************************************)
(* rate_limit under the threads of the server: app.py lines 50-76 run by   *)
(* several requests of one client in one hour, a step per access to        *)
(* request_counts. An inner dict is an object: the += of line 65 reads and  *)
(* writes the dict it fetched, which another thread may have replaced in   *)
(* request_counts meanwhile (threads.gen numbers the inner dicts of the     *)
(* client; a write to a replaced dict is seen by nobody).                  *)
(***************************************************************************)
NumThreads == 2
Threads == 1..NumThreads

ThreadClient == "10.0.0.1"

IdleThread == [pc |-> "idle", inner |-> 0, value |-> 0, count |-> 0, outcome |-> ""]

\* thread t moves to label l
Goto(t, l) == [threads EXCEPT !.of[t].pc = l]

\* a request arrives and its thread enters decorated_function, lines 50-53
Begin(t) ==
  /\ threads.of[t].pc = "idle"
  /\ threads' = Goto(t, "l57")
  /\ UNCHANGED <<config, request_counts, clock, pc, request, response, locals,
                 log, served, checked, calls>>

\* line 57
TestClient(t) ==
  /\ threads.of[t].pc = "l57"
  /\ threads' = Goto(t, IF ThreadClient \in DOMAIN request_counts THEN "l60" ELSE "l58")
  /\ UNCHANGED <<config, request_counts, clock, pc, request, response, locals,
                 log, served, checked, calls>>

\* line 58
StoreClient(t) ==
  /\ threads.of[t].pc = "l58"
  /\ request_counts' = Merge([c \in {ThreadClient} |-> <<>>], request_counts)
  /\ threads' = [Goto(t, "l60") EXCEPT !.gen = @ + 1]
  /\ UNCHANGED <<config, clock, pc, request, response, locals, log, served,
                 checked, calls>>

\* line 60
TestHour(t) ==
  /\ threads.of[t].pc = "l60"
  /\ threads' = Goto(t, IF clock \in DOMAIN request_counts[ThreadClient]
                        THEN "l65" ELSE "l62")
  /\ UNCHANGED <<config, request_counts, clock, pc, request, response, locals,
                 log, served, checked, calls>>

\* line 62
StoreBucket(t) ==
  /\ threads.of[t].pc = "l62"
  /\ request_counts' = [request_counts EXCEPT ![ThreadClient] = [h \in {clock} |-> 0]]
  /\ threads' = [Goto(t, "l65") EXCEPT !.gen = @ + 1]
  /\ UNCHANGED <<config, clock, pc, request, response, locals, log, served,
                 checked, calls>>

\* the thread ends in a KeyError
KeyError(t) == [threads EXCEPT !.of[t].pc = "done", !.of[t].outcome = "fault"]

\* line 65, the read of +=
LoadCount(t) ==
  /\ threads.of[t].pc = "l65"
  /\ threads' =
       IF clock \in DOMAIN request_counts[ThreadClient]
       THEN [threads EXCEPT !.of[t].pc = "l65_store",
                            !.of[t].inner = threads.gen,
                            !.of[t].value = request_counts[ThreadClient][clock]]
       ELSE KeyError(t)
  /\ UNCHANGED <<config, request_counts, clock, pc, request, response, locals,
                 log, served, checked, calls>>

\* line 65, the write of +=
StoreCount(t) ==
  /\ threads.of[t].pc = "l65_store"
  /\ request_counts' =
       IF threads.of[t].inner = threads.gen
       THEN [request_counts EXCEPT ![ThreadClient] =
               Merge([h \in {clock} |-> threads.of[t].value + 1], @)]
       ELSE request_counts
  /\ threads' = Goto(t, "l66")
  /\ UNCHANGED <<config, clock, pc, request, response, locals, log, served,
                 checked, calls>>

\* line 66
ReadCount(t) ==
  /\ threads.of[t].pc = "l66"
  /\ threads' =
       IF clock \in DOMAIN request_counts[ThreadClient]
       THEN [threads EXCEPT !.of[t].pc = "l69",
                            !.of[t].count = request_counts[ThreadClient][clock]]
       ELSE KeyError(t)
  /\ UNCHANGED <<config, request_counts, clock, pc, request, response, locals,
                 log, served, checked, calls>>

\* lines 69-76
Compare(t) ==
  /\ threads.of[t].pc = "l69"
  /\ threads' = [threads EXCEPT
                   !.of[t].pc = "done",
                   !.of[t].outcome =
                     IF OverLimit(threads.of[t].count, API_RATE_LIMIT)
                     THEN "rejected" ELSE "admitted"]
  /\ UNCHANGED <<config, request_counts, clock, pc, request, response, locals,
                 log, served, checked, calls>>

InitThreads ==
  /\ WEBHOOK_SECRET = <<>>
  /\ BITBUCKET_ACCESS_TOKEN = <<>>
  /\ API_RATE_LIMIT \in RateLimits
  /\ Fresh
  /\ threads = [gen |-> 0, of |-> [t \in Threads |-> IdleThread]]
  /\ calls = <<>>

NextThreads ==
  \E t \in Threads :
    \/ Begin(t)
    \/ TestClient(t)
    \/ StoreClient(t)
    \/ TestHour(t)
    \/ StoreBucket(t)
    \/ LoadCount(t)
    \/ StoreCount(t)
    \/ ReadCount(t)
    \/ Compare(t)

SpecThreads == InitThreads /\ [][NextThreads]_vars

\* the threads that ended with the outcome
Ended(outcome) == {t \in Threads : threads.of[t].outcome = outcome}
AllEnded == \A t \in Threads : threads.of[t].pc = "done"

\* C6: under every interleaving of concurrent admission checks of one
\* client in one hour, the read-increment-compare is atomic: no check ends
\* in a fault, the number admitted never exceeds the ceiling, and when all
\* checks have ended the counter holds their number (no increment is lost).
C6_AtomicAdmission ==
  /\ Ended("fault") = {}
  /\ Cardinality(Ended("admitted")) <= API_RATE_LIMIT
  /\ AllEnded => /\ ThreadClient \in DOMAIN request_counts
                 /\ clock \in DOMAIN request_counts[ThreadClient]
                 /\ request_counts[ThreadClient][clock] = NumThreads

(***************************************************************************)
(* analyze_code_with_ai on its own, as the tests of the repository call    *)
(* it: call_openai_api answers a text, and then the same text wrapped in   *)
(* a fenced block labeled json.                                            *)
(***************************************************************************)
\* diffs small enough for the backend to be called
AnalyzeDiffs == {DiffText(100, 0), DiffText(LargeDiffKB * KB, 0)}

AnalyzeCall(diff_, response_content) ==
  [diff |-> diff_, response_content |-> response_content,
   result |-> analyze_code_with_ai(diff_, response_content)]

\* openai_client.py lines 107-256, the backend answering a text
AnalyzeUnwrapped ==
  /\ calls = <<>>
  /\ \E diff_ \in AnalyzeDiffs, response_content \in AllResponses :
       calls' = <<AnalyzeCall(diff_, response_content)>>
  /\ UNCHANGED <<config, request_counts, clock, pc, request, response, locals,
                 log, served, checked, threads>>

\* openai_client.py lines 107-256, the backend answering the text of the
\* call before in a fenced block labeled json
AnalyzeWrapped ==
  /\ Len(calls) = 1
  /\ calls' = Append(calls, AnalyzeCall(calls[1].diff,
                                        JsonFenced(calls[1].response_content)))
  /\ UNCHANGED <<config, request_counts, clock, pc, request, response, locals,
                 log, served, checked, threads>>

InitAnalyze ==
  /\ WEBHOOK_SECRET = <<>>
  /\ BITBUCKET_ACCESS_TOKEN = <<>>
  /\ API_RATE_LIMIT = DefaultRateLimit
  /\ Fresh
  /\ threads = <<>>
  /\ calls = <<>>

NextAnalyze == AnalyzeUnwrapped \/ AnalyzeWrapped

SpecAnalyze == InitAnalyze /\ [][NextAnalyze]_vars

\* what the dispatcher can consume: a mapping with an overall comment whose
\* file comments and documentation are lists
Consumable(v) ==
  /\ IsDict(v)
  /\ HasKey(v, "overall_comment")
  /\ IsList(Get(v, "file_comments", PList(<<>>)))
  /\ IsList(Get(v, "documentation", PList(<<>>)))

\* C4: for any response text of the backend, analyze_code_with_ai returns
\* a result the dispatcher can consume, a mapping with an overall comment
\* and list-valued file comments and documentation: a response that does
\* not parse as that structure is degraded to the result with empty lists.
C4_ResultConsumable ==
  \A i \in 1..Len(calls) :
    /\ Consumable(calls[i].result)
    /\ calls[i].result \notin Reviews =>
         /\ Get(calls[i].result, "file_comments", PNone) = PList(<<>>)
         /\ Get(calls[i].result, "documentation", PNone) = PList(<<>>)

\* reviews of the expected structure whose items have every field
WellFormedReviews ==
  {Review(<<"fix">>, fcs, dns) :
     <<fcs, dns>> \in {p \in SeqsUpTo({FcGood, FcFenced}, MaxItems)
                              \X SeqsUpTo({DnGood}, MaxItems) :
                         Len(p[1]) + Len(p[2]) <= MaxItems}}

\* C10: for a well-formed payload of the expected structure, also one whose
\* comment strings contain code fences, the response that wraps the payload
\* in a fenced block labeled json gives the same result as the payload
\* alone.
C10_FencedSameAsUnwrapped ==
  \A v \in WellFormedReviews :
    (Len(calls) = 2 /\ calls[1].response_content = Dumps(v)) =>
       calls[2].result = calls[1].result

(***************************************************************************)
(* call_openai_api, openai_client.py lines 10-104, and analyze_code_with_ai *)
(* calling it.  What requests.post does is an outcome: it raises, or it    *)
(* answers a status and a body; response.json() is json.loads of the body. *)
(***************************************************************************)
NoKeyError ==
  <<"Error:", "OpenAI API key not configured. Please set OPENAI_API_KEY environment variable.">>
ConnectionErrorText ==
  <<"Error:", "Could not connect to the AI service. Please check your internet connection and try again.">>
TimeoutText ==
  <<"Error:", "The AI service request timed out. Please try again later.">>
EnvelopeJsonError ==
  <<"Error:", "Could not parse the AI service response. Please check the logs.">>
EnvelopeShapeError == <<"Error:", "Unexpected response format from AI service.">>

StatusToken(status) ==
  CASE status = 200 -> "200"
    [] status = 401 -> "401"
    [] status = 429 -> "429"
    [] status = 500 -> "500"

\* lines 65-69
StatusError(status) ==
  <<"Error:", "The AI service returned an error (HTTP", StatusToken(status),
    "). Please check the logs for details.">>

\* line 104, message standing for str(e)
OtherError(message) == <<"Error calling AI service:", message>>

\* len(v) raises TypeError
NoLen(v) == v.t = "None" \/ v.t = "int"

\* v[key] of response_data['choices'][0]['message']['content'] raises
NoItem(v, key) == ~IsDict(v) \/ ~HasKey(v, key)

\* lines 71-82, response_data the body as json.loads read it: the value
\* returned, and the kind of failure ("" when the content is returned)
EnvelopeContent(response_data) ==
  IF NoLen(response_data)
  THEN [v |-> PStr(OtherError("argument is not iterable")), failure |-> "exception"]
  ELSE IF ~IsDict(response_data) \/ ~HasKey(response_data, "choices")
  THEN [v |-> PStr(EnvelopeShapeError), failure |-> "shape"]
  ELSE LET choices == Lookup(response_data, "choices") IN
       IF NoLen(choices)
       THEN [v |-> PStr(OtherError("object has no len()")), failure |-> "exception"]
       ELSE IF ~Truthy(choices)
       THEN [v |-> PStr(EnvelopeShapeError), failure |-> "shape"]
       ELSE IF ~IsList(choices)
       THEN [v |-> PStr(OtherError("0")), failure |-> "exception"]
       ELSE IF NoItem(choices.xs[1], "message")
       THEN [v |-> PStr(OtherError("'message'")), failure |-> "exception"]
       ELSE IF NoItem(Lookup(choices.xs[1], "message"), "content")
       THEN [v |-> PStr(OtherError("'content'")), failure |-> "exception"]
       ELSE LET content == Lookup(Lookup(choices.xs[1], "message"), "content") IN
            IF NoLen(content)
            THEN [v |-> PStr(OtherError("object has no len()")), failure |-> "exception"]
            ELSE [v |-> content, failure |-> ""]

\* call_openai_api(prompt, system_message) with OPENAI_API_KEY = key and
\* requests.post ending in outcome
call_openai_api(key, outcome) ==
  IF key = <<>> THEN [v |-> PStr(NoKeyError), failure |-> "no_key"]
  ELSE IF outcome.kind = "ConnectionError"
  THEN [v |-> PStr(ConnectionErrorText), failure |-> "connection"]
  ELSE IF outcome.kind = "Timeout"
  THEN [v |-> PStr(TimeoutText), failure |-> "timeout"]
  ELSE IF outcome.kind = "Exception"
  THEN [v |-> PStr(OtherError("boom")), failure |-> "exception"]
  ELSE LET parsed == JsonLoads(outcome.text) IN
       IF outcome.status # 200
       THEN IF outcome.text # <<>> /\ ~parsed.ok
            THEN [v |-> PStr(EnvelopeJsonError), failure |-> "json"]
            ELSE [v |-> PStr(StatusError(outcome.status)), failure |-> "status"]
       ELSE IF ~parsed.ok
            THEN [v |-> PStr(EnvelopeJsonError), failure |-> "json"]
            ELSE EnvelopeContent(parsed.v)

\* lines 252-256, for a content that is no text
FailedToAnalyze ==
  PDict(<< <<Key("overall_comment"),
             PStr(<<"Failed to analyze code due to an error:",
                    "object has no attribute 'startswith'">>)>> >>)

\* lines 215-256 on what call_openai_api returned
AnalyzeReturned(returned) ==
  IF IsStr(returned) THEN ParseResponse(returned.s) ELSE FailedToAnalyze

\* the number of calls of call_openai_api that analyze_code_with_ai makes
BackendCalls(diff_) == IF CallsBackend(diff_) THEN 1 ELSE 0

\* texts of prose: a paragraph break, one line, a fenced snippet, nothing,
\* and a text longer than the summary
LongProse == [i \in 1..(SummaryLen + 1) |-> "w"]
ProseContents ==
  {ProseResponse, <<"looks", "good">>, <<"try", FENCE, NL, "x", NL, FENCE, "here">>,
   <<"use", FENCE, "5", FENCE, "here">>, <<>>, LongProse}

\* contents of the backend: prose, JSON, a text with the error marker
Contents ==
  ProseContents \cup {<<"42">>, <<"[", "]">>, <<"{", "}">>, <<"Error:", "I cannot review this.">>}

Envelope(content) ==
  PDict(<< <<Key("choices"),
             PList(<< PDict(<< <<Key("message"),
                                 PDict(<< <<Key("content"), content>> >>)>> >>) >>)>> >>)

\* the bodies of the backend's answers
EnvelopeBodies ==
  {Dumps(Envelope(PStr(c))) : c \in Contents}
    \cup {Dumps(Envelope(PNone)), Dumps(Envelope(PList(<<>>))),
          Dumps(PDict(<< <<Key("choices"), PList(<<>>)>> >>)),
          Dumps(PDict(<< <<Key("choices"), PList(<<PDict(<<>>)>>)>> >>)),
          Dumps(PDict(<< <<Key("error"), PDict(<<>>)>> >>)),
          Dumps(PInt(42)), Dumps(PNone), Dumps(PList(<<>>)),
          <<>>, <<"<html>">>}

BackendStatuses == {200, 401, 429, 500}

BackendOutcomes ==
  {[kind |-> k] : k \in {"ConnectionError", "Timeout", "Exception"}}
    \cup {[kind |-> "response", status |-> st, text |-> body] :
            st \in BackendStatuses, body \in EnvelopeBodies}

NoOutcome == [kind |-> "none"]

ApiKeys == {<<>>, <<"sk-key">>}

\* the diffs handed to the analyzer
BackendDiffs ==
  {NoDiff, DiffText(0, 0), DiffText(1, 0), DiffText(100, 0),
   DiffText(LargeDiffKB * KB, 0), DiffText(LargeDiffKB * KB + 1, 0)}

\* openai_client.py lines 107-256 with lines 10-104: one call of
\* analyze_code_with_ai(diff)
AnalyzeWithBackend ==
  /\ calls = <<>>
  /\ \E diff_ \in BackendDiffs, key \in ApiKeys :
       \E outcome \in (IF CallsBackend(diff_) /\ key # <<>>
                       THEN BackendOutcomes ELSE {NoOutcome}) :
         LET returned == call_openai_api(key, outcome) IN
         calls' = << [diff |-> diff_,
                      key |-> key,
                      outcome |-> outcome,
                      backend_calls |-> BackendCalls(diff_),
                      returned |-> IF CallsBackend(diff_) THEN returned.v ELSE PNone,
                      failure |-> IF CallsBackend(diff_) THEN returned.failure ELSE "",
                      result |-> IF CallsBackend(diff_)
                                 THEN AnalyzeReturned(returned.v)
                                 ELSE NoCallResult(diff_)] >>
  /\ UNCHANGED <<config, request_counts, clock, pc, request, response, locals,
                 log, served, checked, threads>>

NextBackend == AnalyzeWithBackend

SpecBackend == InitAnalyze /\ [][NextBackend]_vars

\* the result of stage (1): the error text as overall comment, empty lists
ErrorResult(text) ==
  PDict(<< <<Key("overall_comment"), text>>,
           <<Key("file_comments"), PList(<<>>)>>,
           <<Key("documentation"), PList(<<>>)>> >>)

\* C11: every error string that call_openai_api returns for a failed
\* backend call (no API key, connection error, timeout, status other than
\* 200, body that is no JSON, envelope without choices, any other
\* exception) is taken by analyze_code_with_ai as stage (1): the result has
\* that string unchanged as overall comment and two empty lists.
C11_ErrorStringsRecognised ==
  \A i \in 1..Len(calls) :
    (calls[i].backend_calls = 1 /\ calls[i].failure # "") =>
       calls[i].result = ErrorResult(calls[i].returned)

\* plain prose: no error marker at the start, no fence, and no JSON
PlainProse(text) ==
  /\ ~(Len(text) > 0 /\ text[1] = "Error:")
  /\ \A k \in 1..Len(text) : text[k] # FENCE
  /\ ~JsonLoads(text).ok

C13_BackendCallCount ==
  \A i \in 1..Len(calls) :
    LET d == calls[i].diff IN
    IF d.t = "None" \/ d.len = 0
    THEN /\ calls[i].backend_calls = 0
         /\ calls[i].result =
              PDict(<< << <<"overall_comment">>,
                          PStr(<<"No changes found to analyze.">>) >> >>)
    ELSE IF d.len > 50 * 1024
    THEN /\ calls[i].backend_calls = 0
         /\ calls[i].result = ErrorResult(PStr(LargeDiffMsg))
    ELSE calls[i].backend_calls = 1

\* a diff one character over 50 KB got the oversized message without a
\* backend call
C13_Witness ==
  /\ Len(calls) = 1
  /\ calls[1].diff.t = "str"
  /\ calls[1].diff.len = 50 * 1024 + 1
  /\ calls[1].backend_calls = 0
  /\ calls[1].result = ErrorResult(PStr(LargeDiffMsg))

\* the posts of the request, and the place of each in the order of groups
Posts ==
  {i \in 1..Len(log) :
     log[i].op \in {"post_comment_to_pr", "post_inline_comment_to_pr"}}

PostRank(i) ==
  IF log[i].op = "post_comment_to_pr"
  THEN (IF log[i].purpose = "overall" THEN 1 ELSE 4)
  ELSE (IF log[i].group = "file_comments" THEN 2 ELSE 3)

\* C14: the posts of one request are issued in the order summary comment,
\* inline attempts for file_comments in payload order, inline attempts for
\* documentation in payload order, fallback comment: no post of a later
\* group precedes one of an earlier group, the summary and the fallback are
\* posted at most once, and when the request is answered success every
\* item that has the fields of its group got exactly one attempt, made
\* with its own file and line.
C14_PostOrder ==
  /\ \A i, j \in Posts :
       i < j =>
         /\ PostRank(i) <= PostRank(j)
         /\ PostRank(i) = PostRank(j) =>
              /\ PostRank(i) \in {2, 3}
              /\ log[i].index < log[j].index
  /\ (Answered /\ Dispatched /\ response.status = "success") =>
       /\ (\E i \in Posts : PostRank(i) = 1) <=> HasKey(analysis, "overall_comment")
       /\ \A group \in Groups :
            \A idx \in 1..Len(ReviewItems(group)) :
              LET item == ReviewItems(group)[idx]
                  attempts == {i \in InlineAttempts :
                                 log[i].group = group /\ log[i].index = idx}
              IN IF Postable(group, item)
                 THEN /\ Cardinality(attempts) = 1
                      /\ \A i \in attempts :
                           /\ log[i].file = Lookup(item, "file")
                           /\ log[i].line = Lookup(item, "line_number")
                 ELSE attempts = {}

\* a request posted the summary, then inline attempts, then the fallback
C14_Witness ==
  /\ Answered
  /\ response.status = "success"
  /\ \E a, b, c, d \in Posts :
       /\ a < b /\ b < c /\ c < d
       /\ PostRank(a) = 1
       /\ PostRank(b) = 2
       /\ PostRank(c) \in {2, 3}
       /\ PostRank(d) = 4

(***************************************************************************)
(* post_inline_comment_to_pr on its own, bitbucket_client.py lines         *)
(* 150-235, as the tests of the repository call it.                        *)
(***************************************************************************)
\* line numbers as json.loads may deliver them
LineNumbers ==
  {PInt(10), PInt(42), PStr(<<"10">>), PStr(<<" ", "42", NL>>), PStr(<<"abc">>),
   PStr(<<"10.5">>), PStr(<<>>), PFloat("10.5"), PNone, PList(<<PInt(10)>>),
   PDict(<<>>)}

FilePaths ==
  {PathX, PStr(<<"/", "src", "/", "x", ".py">>), PStr(<<"src", "\\", "x", ".py">>),
   PStr(<<"..", "/", "x", ".py">>), PStr(<<"/">>), PStr(<<>>), PNone, PInt(5)}

\* what the host may answer to the POST
InlineStatuses == Statuses \cup {202, 302, 404, 500}

SamplePrInfo ==
  [NoPrInfo EXCEPT !.id = PInt(42), !.repository = [full_name |-> RepoName]]

\* one call post_inline_comment_to_pr(pr_info, file_path, line_number, comment)
PostInline ==
  /\ calls = <<>>
  /\ \E file_path \in FilePaths, line_number \in LineNumbers :
       \E status \in (IF post_inline_comment_to_pr(
                           SamplePrInfo, BITBUCKET_ACCESS_TOKEN, file_path,
                           line_number, PStr(<<"fix">>), 200).sent
                      THEN InlineStatuses ELSE {TransportError}) :
         calls' = << [file_path |-> file_path,
                      line_number |-> line_number,
                      status |-> status,
                      call |-> post_inline_comment_to_pr(
                                 SamplePrInfo, BITBUCKET_ACCESS_TOKEN, file_path,
                                 line_number, PStr(<<"fix">>), status)] >>
  /\ UNCHANGED <<config, request_counts, clock, pc, request, response, locals,
                 log, served, checked, threads>>

InitInline ==
  /\ WEBHOOK_SECRET = <<>>
  /\ BITBUCKET_ACCESS_TOKEN \in Tokens
  /\ API_RATE_LIMIT = DefaultRateLimit
  /\ Fresh
  /\ threads = <<>>
  /\ calls = <<>>

NextInline == PostInline

SpecInline == InitInline /\ [][NextInline]_vars

\* the text is a decimal number, white space around it aside
NumericString(v) ==
  /\ v.t = "str"
  /\ \E n \in {"5", "10", "42"} :
       \E i \in 1..Len(v.s) :
         /\ v.s[i] = n
         /\ \A k \in 1..Len(v.s) : k # i => v.s[k] \in {" ", NL}

\* the integer a numeric string denotes
NumberOf(v) ==
  LET n == CHOOSE tok \in {"5", "10", "42"} : \E i \in 1..Len(v.s) : v.s[i] = tok
  IN CASE n = "5" -> 5 [] n = "10" -> 10 [] n = "42" -> 42

\* a file path the function takes, and a credential
ValidInputs(c) ==
  /\ c.file_path.t = "str"
  /\ \E k \in 1..Len(c.file_path.s) : c.file_path.s[k] # "/"
  /\ BITBUCKET_ACCESS_TOKEN # <<>>

\* C15 as stated: post_inline_comment_to_pr takes a line number only when
\* it is an integer or a numeric string, which it sends as the integer
\* inline.to; for any other value it returns false and makes no network
\* call.
C15_IntegerOrNumericString ==
  \A i \in 1..Len(calls) :
    LET c == calls[i] IN
    IF c.line_number.t = "int" \/ NumericString(c.line_number)
    THEN ValidInputs(c) =>
           /\ c.call.sent
           /\ c.call.to = (IF c.line_number.t = "int" THEN c.line_number.n
                           ELSE NumberOf(c.line_number))
    ELSE ~c.call.sent /\ ~c.call.result

\* C15 amended: a line number is taken when it is an integer, a numeric
\* string or a float, and sent as the integer int() makes of it (a float
\* loses its fraction); for any other value the function returns false and
\* makes no network call.
C15_IntConvertible ==
  \A i \in 1..Len(calls) :
    LET c == calls[i] IN
    IF c.line_number.t \in {"int", "float"} \/ NumericString(c.line_number)
    THEN ValidInputs(c) =>
           /\ c.call.sent
           /\ c.call.to = (CASE c.line_number.t = "int" -> c.line_number.n
                             [] c.line_number.t = "float" -> 10
                             [] OTHER -> NumberOf(c.line_number))
    ELSE ~c.call.sent /\ ~c.call.result

\* a numeric string with white space around it was sent as its integer
C15_Witness ==
  /\ Len(calls) = 1
  /\ calls[1].line_number = PStr(<<" ", "42", NL>>)
  /\ calls[1].call.sent
  /\ calls[1].call.to = 42

\* C16 as stated: with valid inputs and a credential, the function returns
\* true exactly when the host answers a 2xx status, and false for any other
\* status and for a transport exception.
C16_TrueIffAny2xx ==
  \A i \in 1..Len(calls) :
    (calls[i].call.sent) =>
       (calls[i].call.result <=> (calls[i].status >= 200 /\ calls[i].status < 300))

\* C16 amended: with valid inputs and a credential, the function returns
\* true exactly when the host answers 200 or 201, and false for any other
\* status and for a transport exception.
C16_TrueIff200Or201 ==
  \A i \in 1..Len(calls) :
    (calls[i].call.sent) =>
       (calls[i].call.result <=> calls[i].status \in {200, 201})

\* the host answered 201 and the function returned true
C16_Witness ==
  /\ Len(calls) = 1
  /\ calls[1].call.sent
  /\ calls[1].status = 201
  /\ calls[1].call.result

(***************************************************************************)
(* The status endpoints next to the admission guard: home and test,        *)
(* app.py lines 79-90, carry no decorator.                                 *)
(***************************************************************************)
\* how many requests the status endpoints receive
MaxStatusRequests == 3

HomeAnswer == Resp(200, "", <<"Bitbucket AI Code Reviewer is running!">>)
TestAnswer == Resp(200, "success", <<"Server is accessible">>)

\* the request to path of client has been answered
StatusServed(path, client, answer) ==
  /\ request' = [NoRequest EXCEPT !.remote_addr = client]
  /\ response' = answer
  /\ calls' = Append(calls, [path |-> path, client |-> client, hour |-> clock,
                             response |-> answer])

\* app.py lines 79-81: GET /
home(client) ==
  /\ Len(calls) < MaxStatusRequests
  /\ StatusServed("/", client, HomeAnswer)
  /\ log' = <<Stage("home")>>
  /\ UNCHANGED <<config, request_counts, clock, pc, locals, served, checked,
                 threads>>

\* GET /test under the rate_limit decorator
test_rate_limited(client) ==
  /\ Len(calls) < MaxStatusRequests
  /\ request_counts' = Increment(request_counts, client, clock)
  /\ IF OverLimit(Count(request_counts', client, clock), API_RATE_LIMIT)
     THEN /\ StatusServed("/test", client, RateLimited(API_RATE_LIMIT))
          /\ log' = <<Stage("rate_limit")>>
     ELSE /\ StatusServed("/test", client, TestAnswer)
          /\ log' = <<Stage("rate_limit"), Stage("test")>>
  /\ UNCHANGED <<config, clock, pc, locals, served, checked, threads>>

\* app.py lines 83-90: GET /test
test(client) ==
  /\ Len(calls) < MaxStatusRequests
  /\ StatusServed("/test", client, TestAnswer)
  /\ log' = <<Stage("test")>>
  /\ UNCHANGED <<config, request_counts, clock, pc, locals, served, checked,
                 threads>>

InitStatus ==
  /\ WEBHOOK_SECRET = <<>>
  /\ BITBUCKET_ACCESS_TOKEN = <<>>
  /\ API_RATE_LIMIT \in {1, 2}
  /\ Fresh
  /\ threads = <<>>
  /\ calls = <<>>

NextStatus ==
  \/ \E client \in Clients : home(client)
  \/ \E client \in Clients : test(client)
  \/ \E client \in Clients : AdmissionCheck(client)
  \/ Tick

SpecStatus == InitStatus /\ [][NextStatus]_vars

TestRequests(i, client, hour) ==
  {j \in 1..i : /\ calls[j].path = "/test"
                /\ calls[j].client = client
                /\ calls[j].hour = hour}

\* C18: with the ceiling set to N, the requests of one client to /test are
\* rate limited: the first N within the hour are answered 200 and the
\* (N+1)-th is answered 429 with a message containing 'Rate limit exceeded'.
C18_TestRateLimited ==
  \A i \in 1..Len(calls) :
    LET c == calls[i]
        k == Cardinality(TestRequests(i, c.client, c.hour))
    IN (c.path = "/test" /\ checked[c.client].n = 0) =>
         /\ k <= API_RATE_LIMIT => c.response.code = 200
         /\ k = API_RATE_LIMIT + 1 =>
              /\ c.response.code = 429
              /\ c.response.message # <<>>
              /\ c.response.message[1] = "Rate limit exceeded. Maximum"

\* C19: the first admission check of a client in a new hour discards the
\* client's count of the previous hour and starts the new bucket, whose
\* count is 1 after the check; the check is admitted, also when the client
\* was rejected in the hour before; the counts of the other clients stay as
\* they are.
C19_HourRollover ==
  [][\A c \in Clients :
       ( /\ request_counts' # request_counts
         /\ request'.remote_addr = c
         /\ c \in DOMAIN request_counts
         /\ clock \notin DOMAIN request_counts[c] ) =>
           /\ DOMAIN request_counts'[c] = {clock}
           /\ request_counts'[c][clock] = 1
           /\ response' = ViewAnswer
           /\ \E i \in 1..Len(log') : log'[i].op = "view"
           /\ DOMAIN request_counts' = DOMAIN request_counts
           /\ \A d \in DOMAIN request_counts \ {c} :
                request_counts'[d] = request_counts[d]]_vars

\* one client, rejected in the first hour, has made its first check of the
\* second hour and was admitted with count 1; the other client still holds
\* its count of the first hour
C19_Witness ==
  /\ clock = 2
  /\ \E c \in Clients, d \in Clients :
       /\ c # d
       /\ request.remote_addr = c
       /\ checked[c] = [hour |-> 2, n |-> 1, rejected_before |-> TRUE]
       /\ c \in DOMAIN request_counts
       /\ request_counts[c] = [h \in {2} |-> 1]
       /\ response = ViewAnswer
       /\ d \in DOMAIN request_counts
       /\ request_counts[d] = [h \in {1} |-> API_RATE_LIMIT + 1]

(***************************************************************************)
(* is_pull_request_event on its own, webhook_utils.py lines 59-83.         *)
(***************************************************************************)
\* what request.json may deliver
ClassifyPayloads ==
  {PullRequestPayload, PushPayload, NullPullRequestPayload, PNone, PDict(<<>>),
   PDict(<< << <<"pullrequest">>, PInt(1)>> >>),
   PDict(<< << <<"pullrequest">>, PList(<<>>)>> >>),
   PDict(<< << <<"pullrequest">>, PStr(<<>>)>> >>),
   PDict(<< << <<"PullRequest">>, PDict(<<>>)>> >>),
   PDict(<< << <<"push">>, PDict(<<>>)>>, << <<"pullrequest">>, PDict(<<>>)>> >>),
   PDict(<< << <<"event">>, PStr(<<"pullrequest">>)>> >>),
   PDict(<< << <<"data">>, PDict(<< << <<"pullrequest">>, PDict(<<>>)>> >>)>> >>),
   PList(<<>>), PList(<<PStr(<<"pullrequest">>)>>), PStr(<<"pullrequest">>),
   PInt(0)}

\* the X-Event-Key header: absent, or one of these values
ClassifyEventKeys ==
  EventKeys \cup {<<"pullrequest:fulfilled">>, <<"PULLREQUEST:CREATED">>, <<>>}

ClassifyHeaders ==
  {<<>>} \cup {[h \in {"X-Event-Key"} |-> k] : k \in ClassifyEventKeys}

\* one call is_pull_request_event(payload, request.headers)
ClassifyCall ==
  /\ calls = <<>>
  /\ \E payload \in ClassifyPayloads, request_headers \in ClassifyHeaders :
       calls' = << [payload |-> payload,
                    headers |-> request_headers,
                    returned |-> is_pull_request_event(payload, request_headers)] >>
  /\ UNCHANGED <<config, request_counts, clock, pc, request, response, locals,
                 log, served, checked, threads>>

NextClassify == ClassifyCall

SpecClassify == InitAnalyze /\ [][NextClassify]_vars

\* the X-Event-Key header names a pull request event
RecognizedHeader(c) ==
  /\ "X-Event-Key" \in DOMAIN c.headers
  /\ c.headers["X-Event-Key"] \in
       {<<"pullrequest:created">>, <<"pullrequest:updated">>}

\* the payload is an object with the top-level key pullrequest
TopLevelPullRequest(c) ==
  \E i \in 1..Len(c.payload.kv) : c.payload.kv[i][1] = <<"pullrequest">>

\* C20: is_pull_request_event returns true for every payload object when
\* the X-Event-Key header is pullrequest:created or pullrequest:updated,
\* true for every payload object with a top-level pullrequest key whatever
\* the header, false for a payload object without that key and without a
\* recognized header, and false for a null payload whatever the headers.
C20_Classification ==
  \A i \in 1..Len(calls) :
    LET c == calls[i] IN
    /\ c.payload.t = "dict" =>
         (c.returned <=> (RecognizedHeader(c) \/ TopLevelPullRequest(c)))
    /\ c.payload.t = "None" => ~c.returned

\* a null payload under the header pullrequest:created was classified as no
\* pull request event
C20_Witness ==
  /\ Len(calls) = 1
  /\ calls[1].payload = PNone
  /\ RecognizedHeader(calls[1])
  /\ ~calls[1].returned

(***************************************************************************)
(* extract_pr_info after the classifier, webhook_utils.py lines 85-97, as  *)
(* the view calls it (app.py lines 103-113).                               *)
(***************************************************************************)
\* a pull request holding one field
PullRequestWith(field, v) ==
  PDict(<< <<Key("pullrequest"), PDict(<< <<Key(field), v>> >>)>> >>)

\* partial pull request payloads: a field, or a field around it, is null,
\* missing or of another type
PartialPayloads ==
  {PullRequestWith("id", PNone), PullRequestWith("id", PInt(42)),
   PullRequestWith("title", PStr(<<"fix">>)),
   PullRequestWith("source", PNone), PullRequestWith("source", PDict(<<>>)),
   PullRequestWith("source", PDict(<< <<Key("branch"), PNone>> >>)),
   PullRequestWith("source",
      PDict(<< <<Key("branch"), PDict(<< <<Key("name"), PStr(<<"dev">>)>> >>)>> >>)),
   PullRequestWith("destination", PNone),
   PullRequestWith("destination", PDict(<< <<Key("repository"), PNone>> >>)),
   PullRequestWith("destination", PDict(<< <<Key("branch"), PStr(<<"main">>)>> >>)),
   PullRequestWith("links", PNone), PullRequestWith("links", PDict(<<>>))}

ExtractPayloads == ClassifyPayloads \cup PartialPayloads

\* app.py lines 103-113: the classifier, then the extraction
ExtractCall ==
  /\ calls = <<>>
  /\ \E payload \in ExtractPayloads, request_headers \in ClassifyHeaders :
       LET accepted == is_pull_request_event(payload, request_headers) IN
       calls' = << [payload |-> payload,
                    headers |-> request_headers,
                    accepted |-> accepted,
                    extracted |-> IF accepted THEN extract_pr_info(payload)
                                  ELSE Raised] >>
  /\ UNCHANGED <<config, request_counts, clock, pc, request, response, locals,
                 log, served, checked, threads>>

NextExtract == ExtractCall

SpecExtract == InitAnalyze /\ [][NextExtract]_vars

\* the value under the keys of path, default when a key is missing or a
\* value on the way is null or no object
RECURSIVE Lenient(_, _, _)
Lenient(v, path, default) ==
  IF path = <<>> THEN v
  ELSE IF ~IsDict(v) \/ ~HasKey(v, Head(path)) THEN default
  ELSE IF Len(path) > 1 /\ ~IsDict(Lookup(v, Head(path))) THEN default
  ELSE Lenient(Lookup(v, Head(path)), Tail(path), default)

\* C21: extract_pr_info produces a descriptor for every payload that the
\* classifier accepts: the extraction never fails, and each of id, title,
\* source branch, destination branch, repository full name and links is
\* the value of its field, or absent (empty for links) when the field or a
\* field around it is missing or null.
C21_ExtractionNeverFails ==
  \A i \in 1..Len(calls) :
    LET c == calls[i]
        pullrequest == Lenient(c.payload, <<"pullrequest">>, PDict(<<>>))
    IN c.accepted =>
         /\ ~c.extracted.raise
         /\ c.extracted.v.id = Lenient(pullrequest, <<"id">>, PNone)
         /\ c.extracted.v.title = Lenient(pullrequest, <<"title">>, PNone)
         /\ c.extracted.v.source_branch =
              Lenient(pullrequest, <<"source", "branch", "name">>, PNone)
         /\ c.extracted.v.destination_branch =
              Lenient(pullrequest, <<"destination", "branch", "name">>, PNone)
         /\ c.extracted.v.repository.full_name =
              Lenient(pullrequest, <<"destination", "repository", "full_name">>, PNone)
         /\ c.extracted.v.links \in
              {Lenient(pullrequest, <<"links">>, PDict(<<>>)), PDict(<<>>)}

(***************************************************************************)
(* get_pr_diff on its own, bitbucket_client.py lines 15-72, for a          *)
(* descriptor that is any Python value.                                    *)
(***************************************************************************)
DiffHref == PStr(<<"https://api.bitbucket.org/2.0", "/diff/42">>)

\* requests.get prepares a request for it: a text with a scheme and a host
UsableUrl(url) ==
  /\ IsStr(url)
  /\ url.s # <<>>
  /\ Head(url.s) = Head(BITBUCKET_API_BASE)

\* lines 19-31: the URL of the diff, or the exception the lookups raise
DiffUrl(descriptor) ==
  IF ~IsDict(descriptor) THEN Raised
  ELSE IF HasKey(descriptor, "links") /\ InRaises(Lookup(descriptor, "links"))
       THEN Raised
  ELSE IF /\ HasKey(descriptor, "links")
          /\ IsDict(Lookup(descriptor, "links"))
          /\ HasKey(Lookup(descriptor, "links"), "diff")
       THEN LET d == Lookup(Lookup(descriptor, "links"), "diff")
            IN IF IsDict(d) /\ HasKey(d, "href") THEN Returned(Lookup(d, "href"))
               ELSE Raised
  ELSE IF /\ HasKey(descriptor, "repository")
          /\ IsDict(Lookup(descriptor, "repository"))
          /\ HasKey(Lookup(descriptor, "repository"), "full_name")
          /\ HasKey(descriptor, "id")
       THEN Returned(PStr(BITBUCKET_API_BASE \o <<"/repositories/">>
                          \o Str(Lookup(Lookup(descriptor, "repository"), "full_name"))
                          \o <<"/pullrequests/">> \o Str(Lookup(descriptor, "id"))
                          \o <<"/diff">>))
  ELSE Raised

\* a truncation that starts at the ceiling itself
TruncatedFromCeiling(length) ==
  IF length >= max_diff_size
  THEN DiffText(max_diff_size + MarkerFixedLen + Digits(length), length)
  ELSE DiffText(length, 0)

\* lines 56-69: the text returned for a diff of length characters
Truncated(length) ==
  IF length > max_diff_size
  THEN DiffText(max_diff_size + MarkerFixedLen + Digits(length), length)
  ELSE DiffText(length, 0)

NotSent(v) == [v |-> v, sent |-> FALSE, url |-> PNone]

\* a fetch that looks for the credential after the request
get_pr_diff_token_late(descriptor, token, status, length) ==
  LET diff_url == DiffUrl(descriptor) IN
  IF diff_url.raise THEN NotSent(NoDiff)
  ELSE IF ~UsableUrl(diff_url.v) THEN NotSent(NoDiff)
  ELSE IF status = TransportError \/ status >= 400 \/ token = <<>>
       THEN [v |-> NoDiff, sent |-> TRUE, url |-> diff_url.v]
  ELSE [v |-> Truncated(length), sent |-> TRUE, url |-> diff_url.v]

\* lines 17-72: [v, sent, url], v the value returned, sent whether a
\* request went to the host, which answered status with length characters
get_pr_diff_call(descriptor, token, status, length) ==
  LET diff_url == DiffUrl(descriptor) IN
  IF diff_url.raise THEN NotSent(NoDiff)
  ELSE IF token = <<>> THEN NotSent(NoDiff)
  ELSE IF ~UsableUrl(diff_url.v) THEN NotSent(NoDiff)
  ELSE IF status = TransportError \/ status >= 400
       THEN [v |-> NoDiff, sent |-> TRUE, url |-> diff_url.v]
  ELSE [v |-> Truncated(length), sent |-> TRUE, url |-> diff_url.v]

LinksWith(href) ==
  PDict(<< <<Key("diff"), PDict(<< <<Key("href"), href>> >>)>> >>)

\* descriptors: what extract_pr_info returns, and values that lack a part
Descriptors ==
  {Dict3("id", PInt(42), "repository", PDict(<< <<Key("full_name"), RepoName>> >>),
         "links", PDict(<<>>)),
   Dict3("id", PInt(42), "repository", PDict(<< <<Key("full_name"), RepoName>> >>),
         "links", LinksWith(DiffHref)),
   Dict3("id", PNone, "repository", PDict(<< <<Key("full_name"), PNone>> >>),
         "links", PDict(<<>>)),
   Dict2("id", PInt(42), "repository", PDict(<< <<Key("full_name"), RepoName>> >>)),
   Dict2("repository", PDict(<< <<Key("full_name"), RepoName>> >>),
         "links", PDict(<<>>)),
   Dict2("id", PInt(42), "links", PDict(<<>>)),
   Dict2("id", PInt(42), "repository", PDict(<<>>)),
   Dict2("id", PInt(42), "repository", PNone),
   Dict3("id", PInt(42), "repository", PDict(<< <<Key("full_name"), RepoName>> >>),
         "links", PNone),
   Dict3("id", PInt(42), "repository", PDict(<< <<Key("full_name"), RepoName>> >>),
         "links", LinksWith(PNone)),
   Dict3("id", PInt(42), "repository", PDict(<< <<Key("full_name"), RepoName>> >>),
         "links", LinksWith(PStr(<<"not a url">>))),
   Dict3("id", PInt(42), "repository", PDict(<< <<Key("full_name"), RepoName>> >>),
         "links", PDict(<< <<Key("diff"), PNone>> >>)),
   PDict(<< <<Key("links"), LinksWith(DiffHref)>> >>),
   PDict(<<>>), PNone}

\* what the host answers to the GET
DiffStatuses == Statuses \cup {404, 500}

\* the sizes of the diffs the host holds
FetchedLengths == {0, 100, max_diff_size - 1, max_diff_size, max_diff_size + 1,
                   LargeDiffKB * KB + 1}

\* one call get_pr_diff(pr_info)
GetDiff ==
  /\ calls = <<>>
  /\ \E descriptor \in Descriptors, status \in DiffStatuses,
        length \in FetchedLengths :
       calls' = << [pr_info |-> descriptor, status |-> status, length |-> length,
                    call |-> get_pr_diff_call(descriptor, BITBUCKET_ACCESS_TOKEN,
                                              status, length)] >>
  /\ UNCHANGED <<config, request_counts, clock, pc, request, response, locals,
                 log, served, checked, threads>>

NextDiff == GetDiff

SpecDiff == InitInline /\ [][NextDiff]_vars

\* the descriptor holds a diff link
HasDiffLink(d) ==
  /\ IsDict(d) /\ HasKey(d, "links")
  /\ IsDict(Lookup(d, "links")) /\ HasKey(Lookup(d, "links"), "diff")

\* the descriptor has nothing to fetch the diff with: its diff link is not
\* a usable one, or it has no diff link and lacks the id or the repository
\* name
LacksTarget(d) ==
  \/ ~IsDict(d)
  \/ HasKey(d, "links") /\ Lookup(d, "links").t \in {"None", "int"}
  \/ /\ HasDiffLink(d)
     /\ LET l == Lookup(Lookup(d, "links"), "diff")
        IN ~(IsDict(l) /\ HasKey(l, "href") /\ UsableUrl(Lookup(l, "href")))
  \/ /\ ~HasDiffLink(d)
     /\ \/ ~HasKey(d, "id")
        \/ ~HasKey(d, "repository")
        \/ ~IsDict(Lookup(d, "repository"))
        \/ ~HasKey(Lookup(d, "repository"), "full_name")

\* C22: get_pr_diff never raises: without the access credential, for a
\* descriptor that lacks id, repository name or a usable diff link, on a
\* transport exception and on an HTTP status that is no success it returns
\* None, and in every other case a text; without the credential no request
\* is issued.
C22_AbsentResult ==
  \A i \in 1..Len(calls) :
    LET c == calls[i] IN
    /\ c.call.v.t \in {"None", "str"}
    /\ c.call.v.t = "None" <=>
         \/ BITBUCKET_ACCESS_TOKEN = <<>>
         \/ LacksTarget(c.pr_info)
         \/ c.status = TransportError
         \/ c.status >= 400
    /\ BITBUCKET_ACCESS_TOKEN = <<>> => ~c.call.sent

\* without the credential, a full descriptor was answered None with no
\* request issued
C22_Witness ==
  /\ Len(calls) = 1
  /\ BITBUCKET_ACCESS_TOKEN = <<>>
  /\ ~LacksTarget(calls[1].pr_info)
  /\ calls[1].call = NotSent(NoDiff)

\* C23: a retrieved diff longer than 20,000 characters comes back as its
\* first 20,000 characters and a truncation marker that states the
\* original size, so its length is the ceiling plus the length of the
\* marker; a diff of at most 20,000 characters comes back as it is.
C23_Truncation ==
  \A i \in 1..Len(calls) :
    LET c == calls[i] IN
    c.call.v.t = "str" =>
      IF c.length > 20000
      THEN /\ c.call.v.len = 20000 + 41 + Digits(c.length)
           /\ c.call.v.total = c.length
      ELSE c.call.v = DiffText(c.length, 0)

\* a diff of 20,001 characters came back with 20,046 characters, the marker
\* stating 20001
C23_Witness ==
  /\ Len(calls) = 1
  /\ calls[1].length = 20001
  /\ calls[1].call.v = DiffText(20046, 20001)

\* C24: when no webhook secret is configured, verify_webhook_signature
\* allows every request: the wrapped handler runs and its outcome (its
\* answer, or the exception it raises) is the outcome of the request, for
\* every body and every signature header, present, absent or wrong.
C24_PermissiveWithoutSecret ==
  (WEBHOOK_SECRET = <<>> /\ request # NoRequest) =>
     /\ ViewRan
     /\ response \in {ViewAnswer, Unhandled}

\* without a secret, a request that carries a digest made with a wrong key
\* reached the view
C24_Witness ==
  /\ WEBHOOK_SECRET = <<>>
  /\ request # NoRequest
  /\ request.data # <<>>
  /\ PresentedSignature = HmacHexDigest(<<"wrong", "key">>, request.data)
  /\ ViewRan
  /\ response = ViewAnswer

\* the calls made for the request in flight from the stage of rank r on
EffectsFrom(r) == {i \in 1..Len(log) : Rank(log[i].op) >= r}

\* C25: a webhook request that is stopped at a stage causes no effect of a
\* later stage: answered 401, 429 or ignored, it has caused no diff fetch,
\* no backend call and no comment post; answered 500 for a failed diff
\* retrieval, it has caused no backend call and no comment post.
C25_NoLaterEffects ==
  Answered =>
    /\ (response.code \in {401, 429} \/ response = Ignored) => EffectsFrom(4) = {}
    /\ response = DiffFailed => EffectsFrom(5) = {}

\* C27: a 401 is returned only when the signature check itself rejects the
\* request: a request answered 401 was stopped by the signature check, and
\* a fault raised after the signature was accepted is never answered
\* 'Signature validation error' / 401.
C27_UnauthorizedOnlyBySignature ==
  Answered =>
    (response.code = 401 => LastOp = "verify_webhook_signature")

(***************************************************************************)
(* The preparation of one FileComment, app.py lines 141-181, on its own.   *)
(***************************************************************************)
\* comment texts: without a block, with one untagged block that ends the
\* text or is followed by more, with a tagged block, with both kinds
CommentTexts ==
  {<<"fix">>,
   <<"use", NL, FENCE, NL, "x", NL, FENCE>>,
   <<"use", NL, FENCE, NL, "x", NL, FENCE, NL, "here">>,
   <<"use", NL, FENCE, "python", NL, "x", NL, FENCE, NL, "here">>,
   <<FENCE, NL, "x", NL, FENCE, NL, FENCE, NL, "x", NL, FENCE>>,
   <<FENCE, "python", NL, "x", NL, FENCE, NL, FENCE, NL, "x", NL, FENCE>>}

CommentFiles ==
  {<<"src", "/", "x", ".py">>, <<"x", ".JS">>, <<"x", ".ts">>, <<"x", ".hpp">>,
   <<"x", ".go">>, <<"x", ".txt">>, <<"x", ".md">>, <<"src", "/", "x">>}

CommentCategories == {"bug", "quality", "security"}

\* one FileComment item through lines 141-181
PrepareCall ==
  /\ calls = <<>>
  /\ \E path \in CommentFiles, text \in CommentTexts,
        category \in CommentCategories :
       calls' = << [file |-> path, text |-> text, category |-> category,
                    prepared |-> PrepareFileComment(
                       Dict4("file", PStr(path), "line_number", PInt(10),
                             "category", PStr(<<category>>),
                             "comment", PStr(text)))] >>
  /\ UNCHANGED <<config, request_counts, clock, pc, request, response, locals,
                 log, served, checked, threads>>

NextPrepare == PrepareCall

SpecPrepare == InitAnalyze /\ [][NextPrepare]_vars

\* text with lang put behind the opening fence of every block that has no
\* tag; inside tells that text starts within a block
RECURSIVE OpeningFencesAnnotated(_, _, _)
OpeningFencesAnnotated(text, lang, inside) ==
  IF text = <<>> THEN <<>>
  ELSE IF Head(text) # FENCE
       THEN <<Head(text)>> \o OpeningFencesAnnotated(Tail(text), lang, inside)
  ELSE IF inside
       THEN <<FENCE>> \o OpeningFencesAnnotated(Tail(text), lang, FALSE)
  ELSE IF Len(text) > 1 /\ text[2] \in Words
       THEN <<FENCE>> \o OpeningFencesAnnotated(Tail(text), lang, TRUE)
  ELSE <<FENCE>> \o lang \o OpeningFencesAnnotated(Tail(text), lang, TRUE)

\* C26: a FileComment is dispatched as its category-prefixed text in which
\* exactly the opening fence of each block without a language tag carries
\* the language of the file's extension; closing fences and all other text
\* are unchanged, and with an extension outside the table only the prefix
\* is added.
C26_OpeningFencesOnly ==
  \A i \in 1..Len(calls) :
    LET c == calls[i] IN
    /\ c.prepared.kind = "post"
    /\ c.prepared.comment.s =
         <<"[", UpperToken(c.category), "]", " ">>
           \o OpeningFencesAnnotated(c.text, FileCommentLang(FileExt(c.file)), FALSE)

\* the admission check has run for the request in flight
Counted == \E i \in 1..Len(log) : log[i].op = "rate_limit"

\* C28: a webhook request that is rejected 401 for a missing or invalid
\* signature leaves the rate-limit state as it was: the rate counters
\* change only in the admission check of a request whose signature was
\* accepted, and the step that rejects a request for its signature comes
\* with no admission check and no change of a counter.
C28_RejectedNotCounted ==
  [][/\ request_counts' # request_counts =>
          /\ Len(log') = 2
          /\ log'[1].op = "verify_webhook_signature"
          /\ log'[2].op = "rate_limit"
     /\ (pc = "verify_webhook_signature" /\ pc' = "idle"
           /\ response' \in {NoSignature, InvalidSignature, SignatureError}) =>
          /\ request_counts' = request_counts
          /\ \A i \in 1..Len(log') : log'[i].op # "rate_limit"]_vars

\* under a ceiling of 1, two requests have been served within the hour and
\* one check has been counted: the request before was not counted, and the
\* latest one, signed, was admitted
C28_Witness ==
  /\ Answered
  /\ WEBHOOK_SECRET # <<>>
  /\ API_RATE_LIMIT = 1
  /\ served = 2
  /\ clock = 1
  /\ Counted
  /\ response.code = 200
  /\ \E c \in Clients :
       /\ DOMAIN request_counts = {c}
       /\ request_counts[c] = [h \in {1} |-> 1]

\* C29: inside the webhook pipeline the analyzer is called only with a
\* diff that is not empty and has at most 20,000 characters plus the
\* truncation marker, which is below the analyzer's threshold of 50 KB, so
\* that every call of the analyzer goes on to the backend; a request whose
\* fetched diff is absent or empty is answered 500.
C29_AnalyzerInput ==
  /\ pc = "analyze_code_with_ai" =>
       /\ diff.t = "str"
       /\ diff.len > 0
       /\ diff.len <= 20000 + 41 + Digits(diff.total)
       /\ diff.len <= 50 * 1024
  /\ \A i \in 1..Len(log) :
       log[i].op = "analyze_code_with_ai" => log[i].called
  /\ (Answered /\ LastOp = "get_pr_diff") =>
       /\ response = DiffFailed
       /\ diff.t = "None" \/ diff.len = 0

\* a diff of more than 50 KB on the host is about to reach the analyzer
\* with 20,046 characters
C29_Witness ==
  /\ pc = "analyze_code_with_ai"
  /\ diff = DiffText(20046, 51201)

\* C30: after any sequence of admission checks made one after another, the
\* rate-limit state holds, for every client that was ever checked, exactly
\* one hour bucket, that of the client's latest check, whose count is at
\* least 1 and is the number of checks, admitted or rejected, the client
\* made in that hour; a client never checked has no entry, and the counts
\* of different clients are independent.
C30_OneBucketPerClient ==
  /\ DOMAIN request_counts = {c \in Clients : checked[c].n > 0}
  /\ \A c \in DOMAIN request_counts :
       /\ DOMAIN request_counts[c] = {checked[c].hour}
       /\ request_counts[c][checked[c].hour] = checked[c].n
       /\ request_counts[c][checked[c].hour] >= 1

\* one client holds three checks of the first hour, two of them rejected,
\* the other its single check of the second hour after having been
\* rejected in the first
C30_Witness ==
  /\ API_RATE_LIMIT = 1
  /\ clock = 2
  /\ request_counts = [c \in Clients |->
                         IF c = "10.0.0.1" THEN [h \in {1} |-> 3]
                         ELSE [h \in {2} |-> 1]]
  /\ checked["10.0.0.2"].rejected_before

====
